---- MODULE Spec2Model ----
(***************************************************************************)
(* Model of the order pipeline and the feature table of the Open           *)
(* Collective API server:                                                  *)
(*   - isFeatureAllowedForCollectiveType / hasFeature (feature table),     *)
(*   - checkOrdersLimit (hourly order limits kept in the cache),           *)
(*   - createOrder, confirmOrder, markOrderAsPaid,                         *)
(*     markPendingOrderAsExpired (order life cycle),                       *)
(*   - refundTransaction, addFundsToOrg,                                   *)
(*   - collectiveSpamCheck (as exercised by its test suite).               *)
(* Each group of handlers has its own specification over its own           *)
(* variables; the variables of the other groups stay at their initial      *)
(* value.                                                                  *)
(*                                                                         *)
(* JavaScript values that may be undefined/null are encoded as strings     *)
(* ("true", "false", "undefined") or as the id 0; a missing row is the     *)
(* empty set in a set-of-at-most-one.                                      *)
(***************************************************************************)
EXTENDS Integers, Sequences, FiniteSets, TLC

VARIABLES
    finput,         \* feature table: the arguments of the call
    fresult,        \* feature table: the value the call returned ("pending" before)
    paymentMethods, \* addFundsToOrg: the PaymentMethods rows created, in order
    activities,     \* addFundsToOrg: the Activities rows created, in order
    fundsRet,       \* addFundsToOrg: the last call (arguments, outcome, rows before it)
    transactions,   \* refundTransaction: the Transactions table, id -> row
    refundCalls,    \* refundTransaction: number of calls of libPayments.refundTransaction
    refundRet,      \* refundTransaction: the last call (arguments, outcome, calls before it)
    env,            \* checkOrdersLimit: config.env
    cache,          \* checkOrdersLimit: the cache, key -> [count, ttl] of the live entries
    calls,          \* checkOrdersLimit: each concurrent createOrder call's position and locals
    started,        \* checkOrdersLimit: number of createOrder calls started
    passes,         \* checkOrdersLimit: key -> calls that passed while its entry is alive
    limitRet,       \* checkOrdersLimit, one call at a time: the last call and the cache before it
    spamInput,      \* collectiveSpamCheck: the collective checked
    spamReport,     \* collectiveSpamCheck: the report returned ([done |-> FALSE] before)
    collectives,    \* orders: the Collectives table, id -> row
    users,          \* orders: the Users table, id -> row
    orders,         \* orders: the Orders table, id -> row
    subscriptions,  \* orders: the Subscriptions table, id -> row
    ordersRet,      \* orders: what the last handler handed back, and the rows before it
    guestContributions, \* orders: config.guestContributions
    createOrderCalls,   \* orders: number of createOrder calls so far
    addFundsCalls       \* orders: number of addFundsToCollective calls so far

featureVars == <<finput, fresult>>

fundsVars == <<paymentMethods, activities, fundsRet>>

refundVars == <<transactions, refundCalls, refundRet>>

limitVars == <<env, cache, calls, started, passes, limitRet>>

spamVars == <<spamInput, spamReport>>

ordersVars == <<collectives, users, orders, subscriptions, ordersRet, guestContributions,
                createOrderCalls, addFundsCalls>>

vars == <<finput, fresult, paymentMethods, activities, fundsRet,
          transactions, refundCalls, refundRet, env, cache, calls, started, passes, limitRet,
          spamInput, spamReport, collectives, users, orders, subscriptions, ordersRet,
          guestContributions, createOrderCalls, addFundsCalls>>

(***************************************************************************)
(* Bounds of the model.                                                    *)
(***************************************************************************)
\* number of settings paths a collective has set (all others are undefined)
MaxSettings == 1
\* number of prepaid payment methods addFundsToOrg creates in one run
MaxPaymentMethods == 2
\* number of refunds libPayments.refundTransaction executes in one run
MaxRefunds == 2
\* number of createOrder calls in progress at the same time
NumProcs == 2
\* number of createOrder calls started in one run
MaxCalls == 3
\* config.limits.ordersPerHour: the configured limits (deployment configuration)
PerAccount == 2
PerAccountForCollective == 1
PerEmail == 2
PerEmailForCollective == 1
PerIp == 1
\* number of createOrder calls in one run
MaxCreateOrderCalls == 1
\* number of addFundsToCollective calls in one run
MaxAddFundsCalls == 1

(***************************************************************************)
(* The value of each group's variables in the specifications of the other  *)
(* groups.                                                                 *)
(***************************************************************************)
FundsIdle ==
    /\ paymentMethods = <<>>
    /\ activities = <<>>
    /\ fundsRet = [op |-> "none"]

RefundIdle ==
    /\ transactions = <<>>
    /\ refundCalls = 0
    /\ refundRet = [op |-> "none"]

LimitIdle ==
    /\ env = "none"
    /\ cache = <<>>
    /\ calls = <<>>
    /\ started = 0
    /\ passes = <<>>
    /\ limitRet = [op |-> "none"]

SpamIdle ==
    /\ spamInput = [name |-> "", website |-> "", description |-> "", longDescription |-> ""]
    /\ spamReport = [done |-> FALSE]

OrdersIdle ==
    /\ collectives = <<>>
    /\ users = <<>>
    /\ orders = <<>>
    /\ subscriptions = <<>>
    /\ ordersRet = <<>>
    /\ guestContributions = [enable |-> FALSE]
    /\ createOrderCalls = 0
    /\ addFundsCalls = 0

(***************************************************************************)
(* allowed-features: the feature table.                                    *)
(***************************************************************************)
Types == {"USER", "ORGANIZATION", "COLLECTIVE", "EVENT", "FUND", "PROJECT"}

HOST_TYPES == <<"USER", "ORGANIZATION">>

FeatureAllowedForTypes ==
    [ RECEIVE_FINANCIAL_CONTRIBUTIONS |->
          <<"ORGANIZATION", "COLLECTIVE", "EVENT", "FUND", "PROJECT">>,
      RECURRING_CONTRIBUTIONS |-> <<"USER", "ORGANIZATION", "COLLECTIVE", "FUND">>,
      RECEIVE_HOST_APPLICATIONS |-> HOST_TYPES,
      HOST_DASHBOARD |-> HOST_TYPES,
      EVENTS |-> <<"ORGANIZATION", "COLLECTIVE">>,
      PROJECTS |-> <<"FUND">>,
      USE_EXPENSES |-> <<"ORGANIZATION", "COLLECTIVE", "EVENT", "FUND", "PROJECT">>,
      RECEIVE_EXPENSES |-> <<"ORGANIZATION", "COLLECTIVE", "EVENT", "FUND", "PROJECT">>,
      COLLECTIVE_GOALS |-> <<"COLLECTIVE", "ORGANIZATION">>,
      TOP_FINANCIAL_CONTRIBUTORS |-> <<"COLLECTIVE", "ORGANIZATION", "FUND">>,
      CONVERSATIONS |-> <<"COLLECTIVE", "ORGANIZATION">>,
      UPDATES |-> <<"COLLECTIVE", "ORGANIZATION">>,
      TEAM |-> <<"ORGANIZATION", "COLLECTIVE", "EVENT", "FUND", "PROJECT">>,
      CONTACT_FORM |-> <<"COLLECTIVE", "EVENT", "ORGANIZATION">>,
      TRANSFERWISE |-> <<"ORGANIZATION">>,
      PAYPAL_PAYOUTS |-> <<"ORGANIZATION">>,
      PAYPAL_DONATIONS |-> <<"ORGANIZATION">> ]

OPT_OUT_FEATURE_FLAGS ==
    [ CONTACT_FORM |-> "settings.features.contactForm",
      UPDATES |-> "settings.features.updates" ]

OPT_IN_FEATURE_FLAGS ==
    [ CROSS_CURRENCY_MANUAL_TRANSACTIONS |-> "settings.features.crossCurrencyManualTransactions",
      COLLECTIVE_GOALS |-> "settings.collectivePage.showGoals",
      PAYPAL_PAYOUTS |-> "settings.features.paypalPayouts",
      PAYPAL_DONATIONS |-> "settings.features.paypalDonations",
      RECEIVE_HOST_APPLICATIONS |-> "settings.apply",
      CONVERSATIONS |-> "settings.features.conversations" ]

FEATURES_ONLY_FOR_HOST_ORGS ==
    { "RECEIVE_FINANCIAL_CONTRIBUTIONS", "USE_EXPENSES", "RECEIVE_EXPENSES",
      "RECEIVE_HOST_APPLICATIONS", "TOP_FINANCIAL_CONTRIBUTORS", "COLLECTIVE_GOALS",
      "TRANSFERWISE", "PAYPAL_PAYOUTS", "PAYPAL_DONATIONS", "CONTACT_FORM",
      "HOST_DASHBOARD" }

FEATURES_ONLY_FOR_HOST_USERS == {"RECEIVE_HOST_APPLICATIONS", "HOST_DASHBOARD"}

FEATURES_ONLY_FOR_ACTIVE_ACCOUNTS == {"CONTACT_FORM"}

FEATURES_ONLY_FOR_ACTIVE_HOSTS == {"RECEIVE_EXPENSES", "RECEIVE_FINANCIAL_CONTRIBUTIONS"}

FEATURES_DISABLED_FOR_PAST_EVENTS == {"RECEIVE_FINANCIAL_CONTRIBUTIONS"}

\* the members of FEATURE that the two source files name
FEATURE ==
    DOMAIN FeatureAllowedForTypes \cup DOMAIN OPT_IN_FEATURE_FLAGS
        \cup DOMAIN OPT_OUT_FEATURE_FLAGS \cup {"ORDER"}

\* Array.prototype.includes
Includes(arr, x) == \E i \in 1..Len(arr) : arr[i] = x

\* a JavaScript value used as a condition: true is truthy, false/undefined/null are not
Truthy(v) == v = "true"

isFeatureAllowedForCollectiveTypeNoUserCheck(collectiveType, feature, isHost) ==
    LET allowedForType ==
            IF feature \in DOMAIN FeatureAllowedForTypes
            THEN Includes(FeatureAllowedForTypes[feature], collectiveType)
            ELSE TRUE
    IN  IF ~allowedForType THEN FALSE
        ELSE IF collectiveType = "ORGANIZATION"
                  /\ feature \in FEATURES_ONLY_FOR_HOST_ORGS /\ ~Truthy(isHost)
             THEN FALSE
             ELSE TRUE

isFeatureAllowedForCollectiveType(collectiveType, feature, isHost) ==
    LET allowedForType ==
            IF feature \in DOMAIN FeatureAllowedForTypes
            THEN Includes(FeatureAllowedForTypes[feature], collectiveType)
            ELSE TRUE
    IN  IF ~allowedForType THEN FALSE
        ELSE IF collectiveType = "ORGANIZATION"
                  /\ feature \in FEATURES_ONLY_FOR_HOST_ORGS /\ ~Truthy(isHost)
             THEN FALSE
             ELSE IF collectiveType = "USER"
                       /\ feature \in FEATURES_ONLY_FOR_HOST_USERS /\ ~Truthy(isHost)
                  THEN FALSE
                  ELSE TRUE

\* lodash get(collective, path): the value at the path, undefined when the path is unset
Get(collective, path) ==
    IF path \in DOMAIN collective.settings THEN collective.settings[path] ELSE "undefined"

hasOptedOutOfFeature(collective, feature) ==
    IF feature \in DOMAIN OPT_OUT_FEATURE_FLAGS
    THEN Get(collective, OPT_OUT_FEATURE_FLAGS[feature]) = "false"
    ELSE FALSE

hasOptedInForFeature(collective, feature) ==
    IF feature \in DOMAIN OPT_IN_FEATURE_FLAGS
    THEN Get(collective, OPT_IN_FEATURE_FLAGS[feature]) = "true"
    ELSE FALSE

hasFeatureNoTypeCheck(collective, feature) ==
    IF collective.js # "object" THEN FALSE
    ELSE IF ~collective.isActive /\ feature \in FEATURES_ONLY_FOR_ACTIVE_ACCOUNTS THEN FALSE
    ELSE IF ~collective.isActive /\ collective.isHost
             /\ feature \in FEATURES_ONLY_FOR_ACTIVE_HOSTS THEN FALSE
    ELSE IF feature \in DOMAIN OPT_OUT_FEATURE_FLAGS
         THEN ~hasOptedOutOfFeature(collective, feature)
    ELSE IF feature \in DOMAIN OPT_IN_FEATURE_FLAGS
         THEN hasOptedInForFeature(collective, feature)
    ELSE IF collective.type = "EVENT" /\ collective.isPastEvent
             /\ feature \in FEATURES_DISABLED_FOR_PAST_EVENTS THEN FALSE
    ELSE TRUE

hasFeature(collective, feature) ==
    IF collective.js # "object" THEN FALSE
    ELSE IF ~isFeatureAllowedForCollectiveType(collective.type, feature,
                                               collective.isHostAccount) THEN FALSE
    ELSE IF ~collective.isActive /\ feature \in FEATURES_ONLY_FOR_ACTIVE_ACCOUNTS THEN FALSE
    ELSE IF ~collective.isActive /\ collective.isHost
             /\ feature \in FEATURES_ONLY_FOR_ACTIVE_HOSTS THEN FALSE
    ELSE IF feature \in DOMAIN OPT_OUT_FEATURE_FLAGS
         THEN ~hasOptedOutOfFeature(collective, feature)
    ELSE IF feature \in DOMAIN OPT_IN_FEATURE_FLAGS
         THEN hasOptedInForFeature(collective, feature)
    ELSE IF collective.type = "EVENT" /\ collective.isPastEvent
             /\ feature \in FEATURES_DISABLED_FOR_PAST_EVENTS THEN FALSE
    ELSE TRUE

\* ---- inputs of the feature-table calls ----
SettingsPaths ==
    {OPT_OUT_FEATURE_FLAGS[f] : f \in DOMAIN OPT_OUT_FEATURE_FLAGS}
        \cup {OPT_IN_FEATURE_FLAGS[f] : f \in DOMAIN OPT_IN_FEATURE_FLAGS}

\* the settings objects with at most MaxSettings paths set to true or false
SettingsObjects ==
    UNION { [ps -> {"true", "false"}] :
              ps \in {s \in SUBSET SettingsPaths : Cardinality(s) <= MaxSettings} }

JsBool == {"true", "false", "undefined"}

\* the JavaScript boolean a call returns
JsOfBool(b) == IF b THEN "true" ELSE "false"

NilCollective(js) ==
    [ js |-> js, type |-> "USER", isHostAccount |-> "undefined", isActive |-> FALSE,
      isHost |-> FALSE, isPastEvent |-> FALSE, settings |-> <<>> ]

\* the collectives hasFeature is called with: null, undefined, or a row;
\* only an EVENT has an end date that can be in the past
CollectiveInputs ==
    {NilCollective("null"), NilCollective("undefined")}
        \cup { c \in [ js : {"object"}, type : Types, isHostAccount : JsBool,
                       isActive : BOOLEAN, isHost : BOOLEAN, isPastEvent : BOOLEAN,
                       settings : SettingsObjects ] :
                 c.isPastEvent => c.type = "EVENT" }

FeatureInputs ==
    { [fn |-> "isFeatureAllowedForCollectiveType", collective |-> c, feature |-> f,
       isHost |-> h] :
          c \in { x \in CollectiveInputs :
                    /\ x.js = "object" /\ x.settings = <<>> /\ ~x.isActive
                    /\ ~x.isHost /\ x.isHostAccount = "undefined" /\ ~x.isPastEvent },
          f \in FEATURE, h \in JsBool }
        \cup
    { [fn |-> "hasFeature", collective |-> c, feature |-> f, isHost |-> "undefined"] :
          c \in CollectiveInputs, f \in FEATURE }

\* the value of the feature-table variables in the other specifications
FeaturesIdle ==
    /\ finput = [fn |-> "none"]
    /\ fresult = "pending"

FeaturesInit ==
    /\ finput \in FeatureInputs
    /\ fresult = "pending"
    /\ FundsIdle
    /\ RefundIdle
    /\ LimitIdle
    /\ SpamIdle
    /\ OrdersIdle

CallIsFeatureAllowedForCollectiveType ==
    /\ fresult = "pending"
    /\ finput.fn = "isFeatureAllowedForCollectiveType"
    /\ fresult' = JsOfBool(isFeatureAllowedForCollectiveType(
                                finput.collective.type, finput.feature, finput.isHost))
    /\ UNCHANGED <<finput, fundsVars, refundVars, limitVars, spamVars, ordersVars>>

CallHasFeature ==
    /\ fresult = "pending"
    /\ finput.fn = "hasFeature"
    /\ fresult' = JsOfBool(hasFeature(finput.collective, finput.feature))
    /\ UNCHANGED <<finput, fundsVars, refundVars, limitVars, spamVars, ordersVars>>

FeaturesNext ==
    \/ CallIsFeatureAllowedForCollectiveType
    \/ CallHasFeature

SpecFeatures == FeaturesInit /\ [][FeaturesNext]_vars

(***************************************************************************)
(* addFundsToOrg: a prepaid payment method for an organization.            *)
(***************************************************************************)
\* the Collectives rows the handler can find: a host and an organization
FundsCollectives ==
    [ id \in {1, 2} |->
        IF id = 1
        THEN [id |-> 1, slug |-> "host", name |-> "Host", currency |-> "USD"]
        ELSE [id |-> 2, slug |-> "org", name |-> "Org", currency |-> "EUR"] ]

\* models.Collective.findByPk: the row in a set, the empty set when there is none
FundsFindByPk(id) ==
    IF id \in DOMAIN FundsCollectives THEN {FundsCollectives[id]} ELSE {}

\* the callers: nobody, a site admin, an ordinary user
FundsUsers ==
    { [js |-> "undefined", isRoot |-> FALSE],
      [js |-> "object", isRoot |-> TRUE],
      [js |-> "object", isRoot |-> FALSE] }

FundsArgs ==
    [ CollectiveId : {1, 2, 3}, HostCollectiveId : {1, 2, 3},
      totalAmount : {1000, 5000}, description : {"", "Gift"} ]

\* the body after the site-admin check: the two lookups and the rows inserted; reading
\* hostCollective.currency or fromCollective.slug of a missing row is a TypeError
addFundsToOrgCreate(args) ==
         LET fromCollective == FundsFindByPk(args.CollectiveId)
             hostCollective == FundsFindByPk(args.HostCollectiveId)
         IN  IF hostCollective = {} \/ fromCollective = {} THEN [threw |-> "TypeError"]
             ELSE LET from == CHOOSE c \in fromCollective : TRUE
                      host == CHOOSE c \in hostCollective : TRUE
                  IN  [ threw |-> "",
                        paymentMethod |->
                          [ name |-> IF args.description # "" THEN args.description
                                     ELSE "Host funds",
                            initialBalance |-> args.totalAmount,
                            monthlyLimitPerMember |-> 0,
                            currency |-> host.currency,
                            CollectiveId |-> args.CollectiveId,
                            customerId |-> from.slug,
                            data |-> [HostCollectiveId |-> args.HostCollectiveId],
                            service |-> "opencollective",
                            type |-> "prepaid" ],
                        activity |->
                          [ type |-> "ADDED_FUND_TO_ORG",
                            CollectiveId |-> args.CollectiveId,
                            data |-> [ totalAmount |-> args.totalAmount,
                                       collective |-> from.id,
                                       currency |-> from.currency,
                                       currentBalance |-> args.totalAmount,
                                       addedBy |-> host.name ] ] ]

\* addFundsToOrg without its first check
addFundsToOrgOutcomeNoRootCheck(args, remoteUser) ==
    IF remoteUser.js # "object" THEN [threw |-> "TypeError"]
    ELSE addFundsToOrgCreate(args)

\* what the call does: the error it throws, or the rows it inserts
addFundsToOrgOutcome(args, remoteUser) ==
    IF remoteUser.js # "object" THEN [threw |-> "TypeError"]
    ELSE IF ~remoteUser.isRoot THEN [threw |-> "Only site admins can perform this operation"]
    ELSE addFundsToOrgCreate(args)

FundsInit ==
    /\ FundsIdle
    /\ FeaturesIdle
    /\ RefundIdle
    /\ LimitIdle
    /\ SpamIdle
    /\ OrdersIdle

addFundsToOrg ==
    \E args \in FundsArgs, remoteUser \in FundsUsers :
        LET out == addFundsToOrgOutcome(args, remoteUser)
        IN  /\ Len(paymentMethods) < MaxPaymentMethods
            /\ fundsRet' = [ op |-> "addFundsToOrg", args |-> args, remoteUser |-> remoteUser,
                             threw |-> out.threw,
                             paymentMethodsBefore |-> Len(paymentMethods),
                             activitiesBefore |-> Len(activities) ]
            /\ IF out.threw # ""
               THEN UNCHANGED <<paymentMethods, activities>>
               ELSE /\ paymentMethods' = Append(paymentMethods, out.paymentMethod)
                    /\ activities' = Append(activities, out.activity)
            /\ UNCHANGED <<featureVars, refundVars, limitVars, spamVars, ordersVars>>

FundsNext == addFundsToOrg

SpecFunds == FundsInit /\ [][FundsNext]_vars

(***************************************************************************)
(* refundTransaction.                                                      *)
(***************************************************************************)
\* ids a caller may pass: the two rows of the table and an id with no row
RefundIds == {1, 2, 3}

\* the callers of the mutation: req.remoteUser
RefundUsers ==
    { [js |-> "undefined", isRoot |-> FALSE, adminOf |-> {}],
      [js |-> "object", isRoot |-> TRUE, adminOf |-> {}],
      [js |-> "object", isRoot |-> FALSE, adminOf |-> {10}],
      [js |-> "object", isRoot |-> FALSE, adminOf |-> {20}],
      [js |-> "object", isRoot |-> FALSE, adminOf |-> {}] }

\* a Transactions row: received by collective 20, hosted by 10
RefundRows ==
    [ type : {"CREDIT", "DEBIT"}, CollectiveId : {20}, HostCollectiveId : {10},
      olderThan30Days : BOOLEAN, RefundTransactionId : {0} ]

\* models.Transaction.findByPk
TransactionFindByPk(id) ==
    IF id \in DOMAIN transactions THEN {transactions[id]} ELSE {}

\* canRefund(transaction, undefined, req), as the handler documents it: the user is an
\* admin of the collective that received the donation, of its host, or of the platform;
\* only host admins refund transactions older than 30 days; the type must be CREDIT
canRefund(transaction, remoteUser) ==
    /\ remoteUser.js = "object"
    /\ transaction.type = "CREDIT"
    /\ \/ remoteUser.isRoot
       \/ transaction.HostCollectiveId \in remoteUser.adminOf
       \/ /\ transaction.CollectiveId \in remoteUser.adminOf
          /\ ~transaction.olderThan30Days

\* the checks of the handler without the permission check
refundTransactionCheckNoPermission(found, canUserRefund) ==
    IF ~found THEN "NotFound" ELSE "ok"

\* the checks of the handler before libPayments.refundTransaction
refundTransactionCheck(found, canUserRefund) ==
    IF ~found THEN "NotFound"
    ELSE IF ~canUserRefund THEN "Forbidden"
    ELSE "ok"

RefundInit ==
    /\ transactions \in [{1, 2} -> RefundRows]
    /\ refundCalls = 0
    /\ refundRet = [op |-> "none"]
    /\ FeaturesIdle
    /\ FundsIdle
    /\ LimitIdle
    /\ SpamIdle
    /\ OrdersIdle

\* refundTransaction(_, args, req); libPayments.refundTransaction either refunds through
\* the payment method and inserts the refund transaction, or throws and inserts nothing
refundTransaction ==
    \E id \in RefundIds, remoteUser \in RefundUsers, paymentFails \in BOOLEAN :
        LET transaction == TransactionFindByPk(id)
            canUserRefund == \E t \in transaction : canRefund(t, remoteUser)
            check == refundTransactionCheck(transaction # {}, canUserRefund)
            newId == Len(transactions) + 1
        IN  /\ refundCalls < MaxRefunds
            /\ refundRet' = [ op |-> "refundTransaction", id |-> id, remoteUser |-> remoteUser,
                              outcome |-> IF check # "ok" THEN check
                                          ELSE IF paymentFails THEN "PaymentError"
                                          ELSE "returned",
                              refundCallsBefore |-> refundCalls,
                              transactionsBefore |-> transactions ]
            /\ refundCalls' = IF check = "ok" THEN refundCalls + 1 ELSE refundCalls
            /\ transactions' =
                 IF check = "ok" /\ ~paymentFails
                 THEN Append([transactions EXCEPT ![id].RefundTransactionId = newId],
                             [ type |-> "DEBIT", CollectiveId |-> transactions[id].CollectiveId,
                               HostCollectiveId |-> transactions[id].HostCollectiveId,
                               olderThan30Days |-> FALSE, RefundTransactionId |-> id ])
                 ELSE transactions
            /\ UNCHANGED <<featureVars, fundsVars, limitVars, spamVars, ordersVars>>

RefundNext == refundTransaction

SpecRefund == RefundInit /\ [][RefundNext]_vars

(***************************************************************************)
(* checkOrdersLimit, as createOrder calls it, under concurrent requests.   *)
(* A call runs from one await to the next without interruption: it issues  *)
(* cache.get and is suspended; the value is read; the continuation         *)
(* computes limitReached, issues cache.set (not awaited) and either        *)
(* throws, issues the next cache.get, or returns.                          *)
(***************************************************************************)
oneHourInSeconds == 60 * 60

\* the time one step of the clock advances
TickSeconds == oneHourInSeconds \div 2

ordersLimits ==
    [ perAccount |-> PerAccount, perAccountForCollective |-> PerAccountForCollective,
      perEmail |-> PerEmail, perEmailForCollective |-> PerEmailForCollective,
      perIp |-> PerIp ]

\* md5 of a string: its digest, a string that names no other input
md5(str) == "md5<" \o str \o ">"

\* the arguments of a call: 0 and "" stand for a missing id, email or IP
LimitInputs ==
    [ fromCollectiveId : {0, 7}, collectiveId : {0, 2},
      userEmail : {"", "a@x.org"}, reqIp : {"", "10.0.0.1"} ]

\* the list of limits the call builds
Limits(order) ==
    IF order.fromCollectiveId # 0
    THEN <<[ key |-> "order_limit_on_account_" \o ToString(order.fromCollectiveId),
             value |-> ordersLimits.perAccount ]>>
         \o (IF order.collectiveId # 0
             THEN <<[ key |-> "order_limit_on_account_" \o ToString(order.fromCollectiveId)
                                \o "_and_collective_" \o ToString(order.collectiveId),
                      value |-> ordersLimits.perAccountForCollective ]>>
             ELSE <<>>)
    ELSE (IF order.userEmail # ""
          THEN <<[ key |-> "order_limit_on_email_" \o md5(order.userEmail),
                   value |-> ordersLimits.perEmail ]>>
               \o (IF order.collectiveId # 0
                   THEN <<[ key |-> "order_limit_on_email_" \o md5(order.userEmail)
                                      \o "_and_collective_" \o ToString(order.collectiveId),
                            value |-> ordersLimits.perEmailForCollective ]>>
                   ELSE <<>>)
          ELSE <<>>)
         \o (IF order.reqIp # ""
             THEN <<[key |-> "order_limit_on_ip_" \o md5(order.reqIp),
                     value |-> ordersLimits.perIp]>>
             ELSE <<>>)

\* every limit some call can build, and the keys they are kept under
AllLimits == UNION { {Limits(o)[i] : i \in 1..Len(Limits(o))} : o \in LimitInputs }

LimitKeys == {l.key : l \in AllLimits}

LimitValue(key) == (CHOOSE l \in AllLimits : l.key = key).value

Procs == 1..NumProcs

IdleCall == [pc |-> "idle", limits |-> <<>>, idx |-> 0, count |-> 0, counted |-> {}]

\* (await cache.get(key)) || 0
CacheGetOrZero(key) == IF key \in DOMAIN cache THEN cache[key].count ELSE 0

\* cache.set(key, value, ttl): the entry is replaced and lives for ttl seconds
CacheSet(c, key, value, ttl) ==
    [k \in DOMAIN c \cup {key} |-> IF k = key THEN [count |-> value, ttl |-> ttl] ELSE c[k]]

LimitInit ==
    /\ env \in {"production", "development", "ci", "test"}
    /\ cache = <<>>
    /\ calls = [p \in Procs |-> IdleCall]
    /\ started = 0
    /\ passes = [k \in LimitKeys |-> 0]
    /\ limitRet = [op |-> "none"]
    /\ FeaturesIdle
    /\ FundsIdle
    /\ RefundIdle
    /\ SpamIdle
    /\ OrdersIdle

\* createOrder reaches `await checkOrdersLimit(order, reqIp)`: outside ci/test the
\* limits are built and the first cache.get is issued; with no limit to check the
\* function returns at once
CheckOrdersLimitStart(p) ==
    \E order \in LimitInputs :
        LET limits == IF env \in {"ci", "test"} THEN <<>> ELSE Limits(order)
        IN  /\ calls[p].pc \in {"idle", "passed", "thrown"}
            /\ started < MaxCalls
            /\ started' = started + 1
            /\ calls' = [calls EXCEPT ![p] =
                           IF limits = <<>>
                           THEN [IdleCall EXCEPT !.pc = "passed"]
                           ELSE [IdleCall EXCEPT !.pc = "get", !.limits = limits, !.idx = 1]]
            /\ UNCHANGED <<env, cache, passes, limitRet, featureVars, fundsVars,
                       refundVars, spamVars, ordersVars>>

\* the cache answers the get: the call's `count`
CheckOrdersLimitGet(p) ==
    /\ calls[p].pc = "get"
    /\ calls' = [calls EXCEPT ![p].pc = "set",
                              ![p].count = CacheGetOrZero(calls[p].limits[calls[p].idx].key)]
    /\ UNCHANGED <<env, cache, started, passes, limitRet, featureVars, fundsVars,
                       refundVars, spamVars, ordersVars>>

\* the continuation after the await: limitReached, cache.set, throw or go on
CheckOrdersLimitSet(p) ==
    LET c == calls[p]
        limit == c.limits[c.idx]
        limitReached == c.count >= limit.value
        counted == c.counted \cup {limit.key}
    IN  /\ c.pc = "set"
        /\ cache' = CacheSet(cache, limit.key, c.count + 1, oneHourInSeconds)
        /\ IF limitReached
           THEN /\ calls' = [calls EXCEPT ![p] = [IdleCall EXCEPT !.pc = "thrown"]]
                /\ UNCHANGED passes
           ELSE IF c.idx < Len(c.limits)
           THEN /\ calls' = [calls EXCEPT ![p].pc = "get", ![p].idx = c.idx + 1,
                                          ![p].counted = counted]
                /\ UNCHANGED passes
           ELSE /\ calls' = [calls EXCEPT ![p] = [IdleCall EXCEPT !.pc = "passed"]]
                /\ passes' = [k \in LimitKeys |->
                                IF k \in counted THEN passes[k] + 1 ELSE passes[k]]
        /\ UNCHANGED <<env, started, limitRet, featureVars, fundsVars,
                       refundVars, spamVars, ordersVars>>

\* time passes: every entry gets older, and an entry whose hour is over is dropped
Tick ==
    LET expired == {k \in DOMAIN cache : cache[k].ttl <= TickSeconds}
    IN  /\ cache # <<>>
        /\ cache' = [k \in DOMAIN cache \ expired |->
                       [cache[k] EXCEPT !.ttl = cache[k].ttl - TickSeconds]]
        /\ calls' = [p \in Procs |-> [calls[p] EXCEPT !.counted = calls[p].counted \ expired]]
        /\ passes' = [k \in LimitKeys |-> IF k \in expired THEN 0 ELSE passes[k]]
        /\ UNCHANGED <<env, started, limitRet, featureVars, fundsVars,
                       refundVars, spamVars, ordersVars>>

LimitNext ==
    \/ \E p \in Procs : CheckOrdersLimitStart(p)
    \/ \E p \in Procs : CheckOrdersLimitGet(p)
    \/ \E p \in Procs : CheckOrdersLimitSet(p)
    \/ Tick

SpecLimit == LimitInit /\ [][LimitNext]_vars

(***************************************************************************)
(* checkOrdersLimit in a sequential run: a call runs to its end before the *)
(* next one starts, and the clock advances between calls.                  *)
(***************************************************************************)
\* (await cache.get(key)) || 0, on a given cache
CountOrZero(c, key) == IF key \in DOMAIN c THEN c[key].count ELSE 0

\* a loop that does not count the rejected call
RECURSIVE checkOrdersLimitLoopNoSetOnReject(_, _, _)
checkOrdersLimitLoopNoSetOnReject(c, limits, i) ==
    IF i > Len(limits) THEN [cache |-> c, threwAt |-> 0]
    ELSE IF CountOrZero(c, limits[i].key) >= limits[i].value
    THEN [cache |-> c, threwAt |-> i]
    ELSE checkOrdersLimitLoopNoSetOnReject(
             CacheSet(c, limits[i].key, CountOrZero(c, limits[i].key) + 1, oneHourInSeconds),
             limits, i + 1)

\* for (const limit of limits) { ... }, from the i-th limit on: the cache afterwards
\* and the index of the limit it threw at (0 when it returned)
RECURSIVE checkOrdersLimitLoop(_, _, _)
checkOrdersLimitLoop(c, limits, i) ==
    IF i > Len(limits) THEN [cache |-> c, threwAt |-> 0]
    ELSE LET limit == limits[i]
             count == CountOrZero(c, limit.key)
             limitReached == count >= limit.value
             set == CacheSet(c, limit.key, count + 1, oneHourInSeconds)
         IN  IF limitReached THEN [cache |-> set, threwAt |-> i]
             ELSE checkOrdersLimitLoop(set, limits, i + 1)

\* the message of the error thrown
OrdersLimitMessage ==
    "Error while processing your request, please try again or contact support@opencollective.com"

LimitSeqInit ==
    /\ env \in {"production", "development", "ci", "test"}
    /\ cache = <<>>
    /\ calls = <<>>
    /\ started = 0
    /\ passes = <<>>
    /\ limitRet = [op |-> "none"]
    /\ FeaturesIdle
    /\ FundsIdle
    /\ RefundIdle
    /\ SpamIdle
    /\ OrdersIdle

\* checkOrdersLimit(order, reqIp), from its first line to its return or throw
checkOrdersLimit ==
    /\ started < MaxCalls
    /\ started' = started + 1
    /\ \E order \in LimitInputs :
         IF env \in {"ci", "test"}
         THEN /\ limitRet' = [ op |-> "checkOrdersLimit", order |-> order, before |-> cache,
                               outcome |-> "returned", threwAt |-> 0, message |-> "" ]
              /\ UNCHANGED cache
         ELSE LET r == checkOrdersLimitLoop(cache, Limits(order), 1)
              IN  /\ cache' = r.cache
                  /\ limitRet' =
                       [ op |-> "checkOrdersLimit", order |-> order, before |-> cache,
                         outcome |-> IF r.threwAt = 0 THEN "returned" ELSE "threw",
                         threwAt |-> r.threwAt,
                         message |-> IF r.threwAt = 0 THEN ""
                                     ELSE IF env = "development"
                                     THEN OrdersLimitMessage \o " - Orders limit reached"
                                     ELSE OrdersLimitMessage ]
    /\ UNCHANGED <<env, calls, passes, featureVars, fundsVars, refundVars, spamVars, ordersVars>>

\* time passes between two calls: every entry gets older, and an entry whose hour is
\* over is dropped
TickBetweenCalls ==
    LET expired == {k \in DOMAIN cache : cache[k].ttl <= TickSeconds}
    IN  /\ cache # <<>>
        /\ cache' = [k \in DOMAIN cache \ expired |->
                       [cache[k] EXCEPT !.ttl = cache[k].ttl - TickSeconds]]
        /\ limitRet' = [op |-> "none"]
        /\ UNCHANGED <<env, calls, started, passes, featureVars, fundsVars, refundVars,
                       spamVars, ordersVars>>

LimitSeqNext ==
    \/ checkOrdersLimit
    \/ TickBetweenCalls

SpecLimitSeq == LimitSeqInit /\ [][LimitSeqNext]_vars

(***************************************************************************)
(* collectiveSpamCheck (server/lib/spam), as its test suite describes it:  *)
(* the name, website, description and long description are searched,       *)
(* ignoring case, for the bad keywords; the domain of the website is       *)
(* looked up in the list of blocked domains. Scores are in tenths.         *)
(***************************************************************************)
UpperCaseLetters == "ABCDEFGHIJKLMNOPQRSTUVWXYZ"

LowerCaseLetters == "abcdefghijklmnopqrstuvwxyz"

CharAt(str, i) == SubSeq(str, i, i)

toLowerCaseChar(c) ==
    IF \E i \in 1..Len(UpperCaseLetters) : CharAt(UpperCaseLetters, i) = c
    THEN CharAt(LowerCaseLetters,
                CHOOSE i \in 1..Len(UpperCaseLetters) : CharAt(UpperCaseLetters, i) = c)
    ELSE c

RECURSIVE toLowerCase(_)
toLowerCase(str) ==
    IF str = "" THEN ""
    ELSE toLowerCaseChar(CharAt(str, 1)) \o toLowerCase(SubSeq(str, 2, Len(str)))

\* String.prototype.includes
StrIncludes(str, part) ==
    \E i \in 1..(Len(str) - Len(part) + 1) : SubSeq(str, i, i + Len(part) - 1) = part

StartsWith(str, prefix) ==
    Len(str) >= Len(prefix) /\ SubSeq(str, 1, Len(prefix)) = prefix

StripPrefix(str, prefix) ==
    IF StartsWith(str, prefix) THEN SubSeq(str, Len(prefix) + 1, Len(str)) ELSE str

\* the part of a string before the first "/"
BeforeSlash(str) ==
    IF \E i \in 1..Len(str) : CharAt(str, i) = "/"
    THEN SubSeq(str, 1, (CHOOSE i \in 1..Len(str) :
                            /\ CharAt(str, i) = "/"
                            /\ \A j \in 1..(i - 1) : CharAt(str, j) # "/") - 1)
    ELSE str

\* the domain a URL points to: no protocol, no path, no leading www.
getDomain(url) ==
    StripPrefix(BeforeSlash(StripPrefix(StripPrefix(toLowerCase(url), "https://"),
                                        "http://")),
                "www.")

\* the bad keywords the tests name, with their scores in tenths
SpamKeywords == <<[keyword |-> "keto", score |-> 3], [keyword |-> "porn", score |-> 2]>>

\* the blocked domain the tests name
BlockedDomains == <<"supplementslove.com">>

SpamFields(collective) ==
    <<collective.name, collective.website, collective.description,
      collective.longDescription>>

\* the keywords found in some field, in the order of the list
SuspiciousKeywords(collective) ==
    SelectSeq(SpamKeywords,
              LAMBDA k : \E i \in 1..4 :
                  StrIncludes(toLowerCase(SpamFields(collective)[i]), k.keyword))

MaxScore(found) ==
    IF found = <<>> THEN 0
    ELSE CHOOSE m \in {found[i].score : i \in 1..Len(found)} :
             \A i \in 1..Len(found) : found[i].score <= m

\* the report without the lookup of the website's domain
collectiveSpamCheckNoDomains(collective) ==
    LET found == SuspiciousKeywords(collective)
    IN  [ done |-> TRUE, score |-> MaxScore(found),
          keywords |-> [i \in 1..Len(found) |-> found[i].keyword],
          domains |-> <<>> ]

collectiveSpamCheck(collective) ==
    LET found == SuspiciousKeywords(collective)
        domains == IF collective.website = "" THEN <<>>
                   ELSE SelectSeq(BlockedDomains,
                                  LAMBDA d : d = getDomain(collective.website))
    IN  [ done |-> TRUE,
          score |-> IF domains # <<>> THEN 10 ELSE MaxScore(found),
          keywords |-> [i \in 1..Len(found) |-> found[i].keyword],
          domains |-> domains ]

\* the collectives checked: the values of the tests and a few neighbours
SpamInputs ==
    [ name : {"", "BEST KeTo!!!", "Webpack"},
      website : {"", "https://supplementslove.com/promotion", "https://maxketo.com",
                 "http://www.SupplementsLove.com", "https://opencollective.com/webpack",
                 "https://supplementslove.com.example.org/"},
      description : {"", "Some keto stuff", "A bundler"},
      longDescription : {"", "Some PORN stuff", "We love supplements"} ]

SpamInit ==
    /\ spamInput \in SpamInputs
    /\ spamReport = [done |-> FALSE]
    /\ FeaturesIdle
    /\ FundsIdle
    /\ RefundIdle
    /\ LimitIdle
    /\ OrdersIdle

CollectiveSpamCheck ==
    /\ ~spamReport.done
    /\ spamReport' = collectiveSpamCheck(spamInput)
    /\ UNCHANGED <<spamInput, featureVars, fundsVars, refundVars, limitVars, ordersVars>>

SpamNext == CollectiveSpamCheck

SpecSpam == SpamInit /\ [][SpamNext]_vars

(***************************************************************************)
(* Orders: createOrder, confirmOrder, markOrderAsPaid and                  *)
(* markPendingOrderAsExpired over the Collectives, Users, Orders and       *)
(* Subscriptions tables. A handler is one step: requests are handled one   *)
(* at a time. Ids are positions in the tables; 0 and "" stand for a        *)
(* missing id or string.                                                   *)
(***************************************************************************)
\* order_status
status ==
    [ NEW |-> "NEW", REQUIRE_CLIENT_CONFIRMATION |-> "REQUIRE_CLIENT_CONFIRMATION",
      PAID |-> "PAID", ERROR |-> "ERROR", ACTIVE |-> "ACTIVE", CANCELLED |-> "CANCELLED",
      PENDING |-> "PENDING", EXPIRED |-> "EXPIRED", PLEDGED |-> "PLEDGED" ]

\* a Collectives row
CollectiveRow(id, type, isActive, isHostAccount, HostCollectiveId, isPledged, website, githubHandle) ==
    [ id |-> id, type |-> type, isActive |-> isActive, isHostAccount |-> isHostAccount,
      HostCollectiveId |-> HostCollectiveId, isPledged |-> isPledged, currency |-> "USD",
      platformFeePercent |-> 0, website |-> website, githubHandle |-> githubHandle ]

\* the rows present before any request: a host, a collective and an event it hosts,
\* and the profiles of the four registered users
InitialCollectives(eventIsActive) ==
    << CollectiveRow(1, "ORGANIZATION", TRUE, TRUE, 1, FALSE, "", ""),
       CollectiveRow(2, "COLLECTIVE", TRUE, FALSE, 1, FALSE, "", ""),
       CollectiveRow(3, "EVENT", eventIsActive, FALSE, 1, FALSE, "", ""),
       CollectiveRow(4, "USER", FALSE, FALSE, 0, FALSE, "", ""),
       CollectiveRow(5, "USER", FALSE, FALSE, 0, FALSE, "", ""),
       CollectiveRow(6, "USER", FALSE, FALSE, 0, FALSE, "", ""),
       CollectiveRow(7, "USER", FALSE, FALSE, 0, FALSE, "", "") >>

\* a Users row
UserRow(id, CollectiveId, adminOf, isRoot, canOrder, email) ==
    [ id |-> id, CollectiveId |-> CollectiveId, adminOf |-> adminOf, isRoot |-> isRoot,
      canOrder |-> canOrder, email |-> email ]

\* a contributor, an admin of the host, a site admin, and a user whose account is
\* limited (canUseFeature(user, FEATURE.ORDER) is false)
InitialUsers ==
    << UserRow(1, 4, {4}, FALSE, TRUE, "user@x.org"),
       UserRow(2, 5, {1, 5}, FALSE, TRUE, "host@x.org"),
       UserRow(3, 6, {6}, TRUE, TRUE, "root@x.org"),
       UserRow(4, 7, {7}, FALSE, FALSE, "limited@x.org") >>

\* the one tier: a fixed amount, no presets, no minimum, on collective 2
Tiers ==
    << [ id |-> 1, CollectiveId |-> 2, amount |-> 1000, presets |-> FALSE,
         minimumAmount |-> 0, currency |-> "USD" ] >>

\* loaders.Collective.byId.load / models.Collective.findByPk: the row, or none
LoadCollective(colls, id) == IF id \in DOMAIN colls THEN {colls[id]} ELSE {}

\* remoteUser.isAdmin(CollectiveId)
isAdmin(user, CollectiveId) == CollectiveId # 0 /\ CollectiveId \in user.adminOf

\* an error: its class, its message, and error.stripeResponse / error.stripeAccount when the
\* payment provider raised it ("" when it carries none)
ErrorOf(name, message) ==
    [name |-> name, message |-> message, stripeResponse |-> "", stripeAccount |-> ""]

PlainError(message) == ErrorOf("Error", message)

StripeError(message) ==
    [ name |-> "StripeCardError", message |-> message, stripeResponse |-> "paymentIntent",
      stripeAccount |-> "acct_host" ]

NoError == ErrorOf("", "")

\* ---- the arguments of createOrder ----
NoPaymentMethod == [type |-> "", token |-> "", uuid |-> "", save |-> FALSE]

ManualPaymentMethod == [type |-> "manual", token |-> "", uuid |-> "", save |-> FALSE]

TokenPaymentMethod == [type |-> "creditcard", token |-> "tok_visa", uuid |-> "", save |-> FALSE]

SavedPaymentMethod == [type |-> "creditcard", token |-> "", uuid |-> "pm-uuid", save |-> FALSE]

NoGuestInfo == [given |-> FALSE, email |-> "", token |-> "", name |-> ""]

GuestInfo == [given |-> TRUE, email |-> "guest@x.org", token |-> "", name |-> ""]

CollectiveRef(id, website, githubHandle) ==
    [id |-> id, website |-> website, githubHandle |-> githubHandle]

\* an order as the mutation passes it, with the fields a contributor usually sends
BaseOrder(collective, paymentMethod, totalAmount, interval, guestInfo) ==
    [ collective |-> collective, fromCollective |-> [id |-> 0, name |-> ""],
      paymentMethod |-> paymentMethod, totalAmount |-> totalAmount, interval |-> interval,
      tier |-> 0, platformFeePercent |-> 0, platformFee |-> 0, hostFeePercent |-> 0,
      taxAmount |-> 0, currency |-> "", guestInfo |-> guestInfo ]

\* the usual requests: a registered contributor or a guest, to the collective, the
\* event, or a pledge to a GitHub repository, free or paid, one-time or monthly
BaseRequests ==
    { [ remoteUser |-> u,
        order |-> BaseOrder(c, pm, amount, interval, IF u = 0 THEN GuestInfo ELSE NoGuestInfo) ] :
          u \in {0, 1},
          c \in { CollectiveRef(2, "", ""), CollectiveRef(3, "", ""),
                  CollectiveRef(0, "", "webpack/webpack") },
          pm \in {NoPaymentMethod, ManualPaymentMethod, TokenPaymentMethod},
          amount \in {0, 1000},
          interval \in {"", "month"} }

\* the usual paid one-time contribution of user 1 to collective 2, and requests that
\* differ from it in one respect
UsualOrder == BaseOrder(CollectiveRef(2, "", ""), TokenPaymentMethod, 1000, "", NoGuestInfo)

OtherRequests ==
    { [remoteUser |-> 4, order |-> UsualOrder],
      [remoteUser |-> 2, order |-> UsualOrder],
      [remoteUser |-> 0, order |-> [UsualOrder EXCEPT !.guestInfo = NoGuestInfo]],
      [remoteUser |-> 0, order |-> [UsualOrder EXCEPT !.guestInfo = GuestInfo,
                                                      !.paymentMethod = SavedPaymentMethod]],
      [remoteUser |-> 1, order |-> [UsualOrder EXCEPT !.paymentMethod = SavedPaymentMethod]],
      [remoteUser |-> 1, order |-> [UsualOrder EXCEPT !.collective = CollectiveRef(0, "", "")]],
      [remoteUser |-> 1, order |-> [UsualOrder EXCEPT
                                       !.collective = CollectiveRef(0, "https://w.org", "")]],
      [remoteUser |-> 1, order |-> [UsualOrder EXCEPT
                                       !.collective = CollectiveRef(0, "https://w.org", "w/w")]],
      [remoteUser |-> 1, order |-> [UsualOrder EXCEPT !.collective = CollectiveRef(99, "", "")]],
      [remoteUser |-> 1, order |-> [UsualOrder EXCEPT
                                       !.collective = CollectiveRef(0, "https://w.org", "w/w"),
                                       !.currency = "EUR"]],
      [remoteUser |-> 1, order |-> [UsualOrder EXCEPT
                                       !.collective = CollectiveRef(0, "", "webpack/webpack"),
                                       !.fromCollective = [id |-> 99, name |-> ""]]],
      [remoteUser |-> 1, order |-> [UsualOrder EXCEPT !.platformFeePercent = 5]],
      [remoteUser |-> 3, order |-> [UsualOrder EXCEPT !.platformFeePercent = 5]],
      [remoteUser |-> 1, order |-> [UsualOrder EXCEPT !.platformFee = 100]],
      [remoteUser |-> 1, order |-> [UsualOrder EXCEPT !.hostFeePercent = 5]],
      [remoteUser |-> 2, order |-> [UsualOrder EXCEPT !.hostFeePercent = 5]],
      [remoteUser |-> 1, order |-> [UsualOrder EXCEPT !.fromCollective = [id |-> 2, name |-> ""]]],
      [remoteUser |-> 1, order |-> [UsualOrder EXCEPT !.fromCollective = [id |-> 1, name |-> ""]]],
      [remoteUser |-> 2, order |-> [UsualOrder EXCEPT !.fromCollective = [id |-> 4, name |-> ""]]],
      [remoteUser |-> 1, order |-> [UsualOrder EXCEPT !.fromCollective = [id |-> 99, name |-> ""]]],
      [remoteUser |-> 1, order |-> [UsualOrder EXCEPT
                                       !.fromCollective = [id |-> 0, name |-> "New Org"]]],
      [remoteUser |-> 1, order |-> [UsualOrder EXCEPT
                                       !.fromCollective = [id |-> 0, name |-> "New Org"],
                                       !.currency = "EUR"]],
      [remoteUser |-> 1, order |-> [UsualOrder EXCEPT !.tier = 1]],
      [remoteUser |-> 1, order |-> [UsualOrder EXCEPT !.tier = 1, !.totalAmount = 500]],
      [remoteUser |-> 1, order |-> [UsualOrder EXCEPT !.tier = 9]],
      [remoteUser |-> 1, order |-> [UsualOrder EXCEPT !.tier = 1,
                                                      !.collective = CollectiveRef(3, "", "")]],
      [remoteUser |-> 1, order |-> [UsualOrder EXCEPT !.currency = "EUR"]],
      [remoteUser |-> 1, order |-> [UsualOrder EXCEPT !.currency = "USD"]],
      [remoteUser |-> 1, order |-> [UsualOrder EXCEPT !.taxAmount = 100]],
      [remoteUser |-> 1, order |-> [UsualOrder EXCEPT !.taxAmount = -100]],
      [remoteUser |-> 1, order |-> [UsualOrder EXCEPT !.totalAmount = -1000]],
      [remoteUser |-> 0, order |-> [UsualOrder EXCEPT !.guestInfo = GuestInfo,
                                                      !.totalAmount = 30000]],
      [remoteUser |-> 0, order |-> [UsualOrder EXCEPT !.guestInfo = GuestInfo,
                                                      !.totalAmount = -1000]] }

\* what the services createOrder consults before it inserts the order answer: the
\* orders limit, the GitHub API, the host's plan, the tickets left of the tier
OkEnv ==
    [ limitReached |-> FALSE, githubFails |-> FALSE, bankTransfersLimitReached |-> FALSE,
      ticketsLeft |-> TRUE ]

CreateOrderRequests ==
    { [remoteUser |-> r.remoteUser, order |-> r.order, env |-> OkEnv] :
          r \in BaseRequests \cup OtherRequests }
      \cup
    { [remoteUser |-> 1, order |-> UsualOrder, env |-> [OkEnv EXCEPT !.limitReached = TRUE]],
      [remoteUser |-> 1,
       order |-> [UsualOrder EXCEPT !.collective = CollectiveRef(0, "", "webpack/webpack")],
       env |-> [OkEnv EXCEPT !.githubFails = TRUE]],
      [remoteUser |-> 1, order |-> [UsualOrder EXCEPT !.paymentMethod = ManualPaymentMethod],
       env |-> [OkEnv EXCEPT !.bankTransfersLimitReached = TRUE]],
      [remoteUser |-> 1, order |-> [UsualOrder EXCEPT !.tier = 1],
       env |-> [OkEnv EXCEPT !.ticketsLeft = FALSE]] }

\* ---- createOrder, up to models.Order.create ----
\* The locals of a call in progress: the tables as the call has changed them so far,
\* and the error it has thrown (none while it runs).
StartCreateOrder(req, colls, usrs) ==
    [ threw |-> NoError, returned |-> "", colls |-> colls, users |-> usrs,
      order |-> req.order, env |-> req.env, remoteUser |-> req.remoteUser,
      collective |-> 0, host |-> 0, tier |-> 0, paymentRequired |-> FALSE,
      fromCollective |-> 0, isGuest |-> FALSE, guestToken |-> "" ]

Throw(cx, name, message) == [cx EXCEPT !.threw = ErrorOf(name, message)]

Running(cx) == cx.threw = NoError /\ cx.returned = ""

\* checkGuestContribution(order, loaders); the collectives of the model have no
\* settings.features.GUEST_CONTRIBUTIONS, and every email given is well-formed
checkGuestContribution(cx, guestContributionsEnable) ==
    LET order == cx.order
        guestInfo == order.guestInfo
        collective == IF order.collective.id # 0
                      THEN LoadCollective(cx.colls, order.collective.id) ELSE {}
    IN  IF collective = {}
        THEN Throw(cx, "Error", "Guest contributions need to be made to an existing collective")
        ELSE IF ~guestContributionsEnable
        THEN Throw(cx, "Error", "Guest contributions are not enabled yet")
        ELSE IF order.interval # ""
        THEN Throw(cx, "Error", "You need to sign up to create a recurring contribution")
        ELSE IF ~guestInfo.given
        THEN Throw(cx, "Error", "You need to provide a guest profile with an email for logged out contributions")
        ELSE IF guestInfo.email = "" /\ guestInfo.token = ""
        THEN Throw(cx, "Error", "When contributing as a guest, you either need to provide an email or a token")
        ELSE IF order.totalAmount > 25000 /\ guestInfo.name = ""
        THEN Throw(cx, "Error", "Contributions that are more than $250 must have a name attached")
        ELSE cx

\* the head of createOrder: canUseFeature, checkGuestContribution, checkOrdersLimit
CreateOrderChecks(cx, guestContributionsEnable) ==
    IF cx.remoteUser # 0 /\ ~cx.users[cx.remoteUser].canOrder
    THEN [cx EXCEPT !.returned = "FeatureNotAllowedForUser"]
    ELSE LET c1 == IF cx.remoteUser = 0
                   THEN checkGuestContribution(cx, guestContributionsEnable) ELSE cx
         IN  IF ~Running(c1) THEN c1
             ELSE IF c1.env.limitReached
             THEN Throw(c1, "Error", "Error while processing your request, please try again or contact support@opencollective.com")
             ELSE c1

\* remoteUser?.isRoot() and remoteUser?.isAdmin(id)
RemoteUserIsRoot(cx) == cx.remoteUser # 0 /\ cx.users[cx.remoteUser].isRoot

RemoteUserIsAdmin(cx, id) == cx.remoteUser # 0 /\ isAdmin(cx.users[cx.remoteUser], id)

\* the checks on the arguments before the recipient is looked up
CreateOrderValidateArgs(cx) ==
    LET order == cx.order
        pm == order.paymentMethod
        isExistingPaymentMethod == pm.uuid # ""
        ref == order.collective
    IN  IF ~Running(cx) THEN cx
        ELSE IF isExistingPaymentMethod /\ cx.remoteUser = 0
        THEN Throw(cx, "Error", "You need to be logged in to be able to use an existing payment method")
        ELSE IF ref.id = 0 /\ ref.website = "" /\ ref.githubHandle = ""
        THEN Throw(cx, "Error", "No collective id/website/githubHandle provided")
        ELSE IF ref.id = 0 /\ ref.githubHandle = ""
        THEN Throw(cx, "ValidationFailed", "An Open Collective id or a GitHub handle is mandatory.")
        ELSE IF ref.githubHandle # "" /\ cx.env.githubFails
        THEN Throw(cx, "ValidationFailed", "We could not verify the GitHub repository")
        ELSE IF order.platformFeePercent # 0 /\ ~RemoteUserIsRoot(cx)
        THEN Throw(cx, "Error", "Only a root can change the platformFeePercent")
        ELSE cx

\* models.Collective.create / createOrganization / the guest profile: a new row
AddCollective(cx, type, isPledged, website, githubHandle) ==
    [cx EXCEPT !.colls = Append(cx.colls,
                                CollectiveRow(Len(cx.colls) + 1, type, FALSE, FALSE, 0,
                                              isPledged, website, githubHandle))]

\* the rows with the given website, or the given GitHub handle
ByWebsite(colls, website) == {i \in DOMAIN colls : colls[i].website = website}

ByGithubHandle(colls, handle) == {i \in DOMAIN colls : colls[i].githubHandle = handle}

\* the recipient: loaded by id, found or created by website, or found or created as a
\* pledged collective by GitHub handle
CreateOrderFindCollective(cx) ==
    LET ref == cx.order.collective
    IN  IF ~Running(cx) THEN cx
        ELSE IF ref.id # 0
        THEN IF ref.id \in DOMAIN cx.colls
             THEN [cx EXCEPT !.collective = ref.id]
             ELSE Throw(cx, "Error", "No collective found")
        ELSE IF ref.website # ""
        THEN IF ByWebsite(cx.colls, ref.website) # {}
             THEN [cx EXCEPT !.collective = CHOOSE i \in ByWebsite(cx.colls, ref.website) : TRUE]
             ELSE [AddCollective(cx, "COLLECTIVE", FALSE, ref.website, ref.githubHandle)
                       EXCEPT !.collective = Len(cx.colls) + 1]
        ELSE IF ByGithubHandle(cx.colls, ref.githubHandle) # {}
             THEN [cx EXCEPT !.collective =
                       CHOOSE i \in ByGithubHandle(cx.colls, ref.githubHandle) : TRUE]
             ELSE [AddCollective(cx, "COLLECTIVE", TRUE, "", ref.githubHandle)
                       EXCEPT !.collective = Len(cx.colls) + 1]

\* the checks between the recipient and the contributor: same collective, fees, host,
\* tier, payment method, bank transfers limit, tickets left
CreateOrderCheckRecipient(cx) ==
    IF ~Running(cx) THEN cx
    ELSE
    LET order == cx.order
        collective == cx.colls[cx.collective]
        host == collective.HostCollectiveId
        tierFound == order.tier \in DOMAIN Tiers
        tierAmount == IF tierFound THEN Tiers[order.tier].amount ELSE 0
        paymentRequired == (order.totalAmount > 0 \/ tierAmount > 0) /\ collective.isActive
        pm == order.paymentMethod
    IN  IF order.fromCollective.id = collective.id
        THEN Throw(cx, "Error", "Orders cannot be created for a collective by that same collective.")
        ELSE IF order.platformFee # 0 /\ collective.platformFeePercent # 0
                /\ ~RemoteUserIsRoot(cx)
        THEN Throw(cx, "Error", "Only a root can set a platformFee on a collective with non-zero platformFee")
        ELSE IF order.hostFeePercent # 0 /\ cx.remoteUser # 0 /\ host = 0
        THEN Throw(cx, "TypeError", "Cannot read property 'id' of null")
        ELSE IF order.hostFeePercent # 0 /\ ~RemoteUserIsAdmin(cx, host)
        THEN Throw(cx, "Error", "Only an admin of the host can change the hostFeePercent")
        ELSE IF order.tier # 0 /\ ~tierFound
        THEN Throw(cx, "Error", "No tier found with tier id")
        ELSE IF order.tier # 0 /\ Tiers[order.tier].CollectiveId # collective.id
        THEN Throw(cx, "Error", "This tier doesn't belong to the given Collective")
        ELSE IF paymentRequired /\ ~(pm.uuid # "" \/ pm.token # "" \/ pm.type = "manual")
        THEN Throw(cx, "Error", "This order requires a payment method")
        ELSE IF paymentRequired /\ pm.type = "manual" /\ cx.env.bankTransfersLimitReached
        THEN Throw(cx, "Error", "The limit of the host's plan for bank transfers is reached")
        ELSE IF order.tier # 0 /\ ~cx.env.ticketsLeft
        THEN Throw(cx, "Error", "No more tickets left")
        ELSE [cx EXCEPT !.host = host, !.tier = order.tier,
                        !.paymentRequired = paymentRequired]

\* models.Collective.createOrganization(data, user, remoteUser): the organization, with
\* the user as its admin
createOrganization(cx) ==
    LET id == Len(cx.colls) + 1
        c1 == AddCollective(cx, "ORGANIZATION", FALSE, "", "")
    IN  [c1 EXCEPT !.fromCollective = id,
                   !.users[cx.remoteUser].adminOf = @ \cup {id}]

\* getOrCreateGuestProfile(guestInfo): the user with that email and its profile, created
\* when there is none; the request goes on as that user
GuestsByEmail(usrs, email) == {i \in DOMAIN usrs : usrs[i].email = email}

getOrCreateGuestProfile(cx) ==
    LET email == cx.order.guestInfo.email
        found == GuestsByEmail(cx.users, email)
    IN  IF found # {}
        THEN LET u == CHOOSE i \in found : TRUE
             IN  [cx EXCEPT !.remoteUser = u, !.fromCollective = cx.users[u].CollectiveId,
                            !.guestToken = "guest-token", !.isGuest = TRUE]
        ELSE LET cid == Len(cx.colls) + 1
                 uid == Len(cx.users) + 1
                 c1 == AddCollective(cx, "USER", FALSE, "", "")
             IN  [c1 EXCEPT !.users = Append(cx.users,
                                             UserRow(uid, cid, {cid}, FALSE, TRUE, email)),
                            !.remoteUser = uid, !.fromCollective = cid,
                            !.guestToken = "guest-token", !.isGuest = TRUE]

\* the contributor: the profile of the user, the collective named (the user must
\* administer it, or the host of the recipient), or a profile created on the spot.
\* No user of the model is a mere member of an organization.
CreateOrderFindFromCollective(cx) ==
    IF ~Running(cx) THEN cx
    ELSE
    LET order == cx.order
        from == order.fromCollective
        own == IF cx.remoteUser # 0 /\ from.id = 0 /\ from.name = ""
               THEN cx.users[cx.remoteUser].CollectiveId ELSE 0
        HostId == cx.colls[cx.collective].HostCollectiveId
    IN  IF from.id # 0
        THEN IF from.id \notin DOMAIN cx.colls
             THEN Throw(cx, "Error", "From collective id not found")
             ELSE IF ~RemoteUserIsAdmin(cx, from.id) /\ ~RemoteUserIsAdmin(cx, HostId)
             THEN Throw(cx, "Error", "You don't have sufficient permissions to create an order on behalf of the collective")
             ELSE [cx EXCEPT !.fromCollective = from.id]
        ELSE IF own # 0 THEN [cx EXCEPT !.fromCollective = own]
        ELSE IF cx.remoteUser # 0 THEN createOrganization(cx)
        ELSE getOrCreateGuestProfile(cx)

\* getTaxInfo: the host of the model is in a country with neither VAT nor GST, so
\* LibTaxes.getApplicableTaxes is empty and there is no tax info
taxPercent == 0

\* the checks on currency, tax and amounts
CreateOrderCheckAmounts(cx) ==
    IF ~Running(cx) THEN cx
    ELSE
    LET order == cx.order
        collective == cx.colls[cx.collective]
        currency == IF cx.tier # 0 THEN Tiers[cx.tier].currency ELSE collective.currency
        quantity == 1
    IN  IF order.currency # "" /\ order.currency # currency
        THEN Throw(cx, "Error", "Invalid currency.")
        ELSE IF order.taxAmount < 0
        THEN Throw(cx, "Error", "Tax amount cannot be negative")
        ELSE IF taxPercent = 0 /\ order.taxAmount # 0
        THEN Throw(cx, "Error", "This order should not have any tax attached.")
        ELSE IF order.totalAmount < 0
        THEN Throw(cx, "Error", "Total amount cannot be a negative value")
        ELSE IF cx.tier # 0 /\ Tiers[cx.tier].amount # 0 /\ ~Tiers[cx.tier].presets
                /\ ( \/ order.totalAmount - order.taxAmount - order.platformFee
                          # quantity * Tiers[cx.tier].amount
                     \/ order.taxAmount # (quantity * Tiers[cx.tier].amount * taxPercent) \div 100 )
        THEN Throw(cx, "Error", "This tier uses a fixed amount.")
        ELSE IF cx.tier # 0 /\ Tiers[cx.tier].minimumAmount # 0
                /\ order.totalAmount < Tiers[cx.tier].minimumAmount * quantity
        THEN Throw(cx, "Error", "The amount you set is below minimum tier value")
        ELSE cx

\* createOrder from its first line to the line before models.Order.create
CreateOrderBeforeInsert(req, colls, usrs, guestContributionsEnable) ==
    CreateOrderCheckAmounts(
        CreateOrderFindFromCollective(
            CreateOrderCheckRecipient(
                CreateOrderFindCollective(
                    CreateOrderValidateArgs(
                        CreateOrderChecks(StartCreateOrder(req, colls, usrs),
                                          guestContributionsEnable))))))

\* ---- createOrder, from models.Order.create on ----
\* an Orders row; processedAt is "" (null) or "date"
NoOrder ==
    [ id |-> 0, status |-> "", processedAt |-> "", data |-> <<>>, CreatedByUserId |-> 0,
      FromCollectiveId |-> 0, CollectiveId |-> 0, TierId |-> 0, totalAmount |-> 0,
      currency |-> "", interval |-> "", SubscriptionId |-> 0 ]

\* orderData, the row createOrder inserts; no tier of the model has data
orderData(cx, id) ==
    LET order == cx.order
        collective == cx.colls[cx.collective]
        orderStatus == IF order.paymentMethod.type = "manual" THEN status.PENDING
                       ELSE IF collective.isPledged THEN status.PLEDGED
                       ELSE status.NEW
        hostFee == IF order.hostFeePercent # 0
                   THEN [hostFeePercent |-> order.hostFeePercent] ELSE <<>>
        platformFee == IF order.platformFee # 0 THEN [platformFee |-> order.platformFee]
                       ELSE IF order.platformFeePercent # 0
                       THEN [platformFeePercent |-> order.platformFeePercent]
                       ELSE <<>>
    IN  [ id |-> id,
          status |-> IF order.totalAmount = 0
                     THEN (IF order.interval # "" THEN status.ACTIVE ELSE status.PAID)
                     ELSE orderStatus,
          processedAt |-> IF cx.paymentRequired \/ ~collective.isActive THEN "" ELSE "date",
          data |-> [ reqIp |-> "127.0.0.1", recaptchaResponse |-> "undefined",
                     tax |-> "undefined", customData |-> "undefined",
                     savePaymentMethod |-> order.paymentMethod.save,
                     isFeesOnTop |-> "undefined" ] @@ hostFee @@ platformFee,
          CreatedByUserId |-> cx.remoteUser,
          FromCollectiveId |-> cx.fromCollective,
          CollectiveId |-> cx.collective,
          TierId |-> cx.tier,
          totalAmount |-> order.totalAmount,
          currency |-> IF cx.tier # 0 THEN Tiers[cx.tier].currency ELSE collective.currency,
          interval |-> order.interval,
          SubscriptionId |-> 0 ]

\* the awaited calls after models.Order.create that may reject, and how
\* libPayments.executeOrder may: with a plain error or with an error of the payment
\* provider before it has charged, or with a plain error after it has updated the order
Faults ==
    { "none", "setPaymentMethod", "executeOrder", "executeOrderStripe",
      "executeOrderAfterUpdate", "Subscription.create", "update", "addUserWithRole",
      "Activity.create", "findByPk" }

InternalError == PlainError("Something went wrong")

CardError == StripeError("Your card requires authentication")

\* libPayments.executeOrder(remoteUser, order): "updating the order to PAID", "update
\* order.status and order.processedAt"; a recurring order becomes ACTIVE, and a bank
\* transfer that is not paid yet is left waiting
executeOrder(order, manualNotPaid, fault) ==
    LET paid == [order EXCEPT !.status = IF order.interval # "" THEN status.ACTIVE
                                         ELSE status.PAID,
                              !.processedAt = "date"]
    IN  IF fault = "executeOrder" THEN [order |-> order, error |-> InternalError]
        ELSE IF fault = "executeOrderStripe" THEN [order |-> order, error |-> CardError]
        ELSE IF manualNotPaid THEN [order |-> order, error |-> NoError]
        ELSE IF fault = "executeOrderAfterUpdate"
        THEN [order |-> paid, error |-> InternalError]
        ELSE [order |-> paid, error |-> NoError]

\* a Subscriptions row
SubscriptionRow(id, amount, interval, currency) ==
    [ id |-> id, amount |-> amount, interval |-> interval, currency |-> currency,
      chargeRetryCount |-> 0, chargeNumber |-> "null", nextChargeDate |-> "" ]

\* lines 660-708: the payment, the subscription of a free recurring contribution, or the
\* free ticket; the order as createOrder holds it afterwards, and the error raised
CreateOrderAfterInsert(cx, orderCreated, subs, fault) ==
    LET order == cx.order
        collective == cx.colls[cx.collective]
        Raise(o, s) == [order |-> o, subscriptions |-> s, error |-> InternalError]
        Done(o, s) == IF fault = "findByPk" THEN Raise(o, s)
                      ELSE [order |-> o, subscriptions |-> s, error |-> NoError]
    IN  IF cx.paymentRequired
        THEN IF order.paymentMethod.type # "manual" /\ fault = "setPaymentMethod"
             THEN Raise(orderCreated, subs)
             ELSE LET r == executeOrder(orderCreated, order.paymentMethod.type = "manual", fault)
                  IN  IF r.error # NoError
                      THEN [order |-> r.order, subscriptions |-> subs, error |-> r.error]
                      ELSE Done(r.order, subs)
        ELSE IF order.interval # "" /\ collective.type = "COLLECTIVE"
        THEN LET subscription == SubscriptionRow(Len(subs) + 1, order.totalAmount,
                                                 order.interval, order.currency)
             IN  IF fault = "Subscription.create" THEN Raise(orderCreated, subs)
                 ELSE IF fault = "update" THEN Raise(orderCreated, Append(subs, subscription))
                 ELSE Done([orderCreated EXCEPT !.SubscriptionId = subscription.id],
                           Append(subs, subscription))
        ELSE IF collective.type = "EVENT"
        THEN LET ticket == [orderCreated EXCEPT !.status = "PAID", !.processedAt = "date"]
             IN  IF fault = "update" THEN Raise(orderCreated, subs)
                 ELSE IF fault \in {"addUserWithRole", "Activity.create"}
                 THEN Raise(ticket, subs)
                 ELSE Done(ticket, subs)
        ELSE Done(orderCreated, subs)

\* a catch block that does not look at error.stripeResponse when it sets the status
CreateOrderSaveErrorAlwaysError(orderCreated, error) ==
    IF orderCreated.processedAt = ""
    THEN [orderCreated EXCEPT !.status = status.ERROR,
                              !.data = [error |-> [message |-> error.message]] @@ @]
    ELSE orderCreated

\* lines 712-723: the order as the catch block saves it
CreateOrderSaveError(orderCreated, error) ==
    IF orderCreated.processedAt = ""
    THEN [orderCreated EXCEPT
              !.status = IF error.stripeResponse # "" THEN status.REQUIRE_CLIENT_CONFIRMATION
                         ELSE status.ERROR,
              !.data = [error |-> [message |-> error.message]] @@ @]
    ELSE orderCreated

\* the stripeError both catch blocks build
NoStripeError == [message |-> "", account |-> "", response |-> ""]

StripeErrorOf(error) ==
    [message |-> error.message, account |-> error.stripeAccount,
     response |-> error.stripeResponse]

\* lines 725-736: whether the catch block of createOrder rethrows or returns
CreateOrderCatch(error) ==
    IF error.stripeResponse = ""
    THEN [outcome |-> "threw", stripeError |-> NoStripeError]
    ELSE [outcome |-> "returned", stripeError |-> StripeErrorOf(error)]

\* what a handler handed back: the value it returned or the error it threw, the error
\* raised after the order was persisted (createOrder) or inside the try (confirmOrder),
\* the order as it was held when that error was raised, the order and the subscriptions
\* as they were before the call, the payment function called, and the caller
NoRet ==
    [ op |-> "none", outcome |-> "none", value |-> "", error |-> NoError,
      raised |-> NoError, stripeError |-> NoStripeError, orderId |-> 0,
      orderCreated |-> NoOrder, before |-> NoOrder, subscriptionsBefore |-> <<>>,
      called |-> "", guestToken |-> "", caller |-> 0 ]

Threw(op, error) == [NoRet EXCEPT !.op = op, !.outcome = "threw", !.error = error]

Returned(op, value) == [NoRet EXCEPT !.op = op, !.outcome = "returned", !.value = value]

OrdersInit ==
    /\ \E eventIsActive \in BOOLEAN : collectives = InitialCollectives(eventIsActive)
    /\ users = InitialUsers
    /\ orders = <<>>
    /\ subscriptions = <<>>
    /\ ordersRet = NoRet
    /\ guestContributions \in [enable : BOOLEAN]
    /\ createOrderCalls = 0
    /\ addFundsCalls = 0
    /\ FeaturesIdle /\ FundsIdle /\ RefundIdle /\ LimitIdle /\ SpamIdle

OtherVarsUnchanged == UNCHANGED <<featureVars, fundsVars, refundVars, limitVars, spamVars>>

\* createOrder(order, loaders, remoteUser, reqIp)
createOrder ==
    /\ createOrderCalls < MaxCreateOrderCalls
    /\ createOrderCalls' = createOrderCalls + 1
    /\ UNCHANGED addFundsCalls
    /\ UNCHANGED guestContributions
    /\ \E req \in CreateOrderRequests :
         LET cx == CreateOrderBeforeInsert(req, collectives, users, guestContributions.enable)
         IN  IF cx.returned # ""
             THEN /\ ordersRet' = Returned("createOrder", cx.returned)
                  /\ UNCHANGED <<collectives, users, orders, subscriptions>>
             ELSE IF cx.threw # NoError
             THEN /\ ordersRet' = Threw("createOrder", cx.threw)
                  /\ collectives' = cx.colls
                  /\ users' = cx.users
                  /\ UNCHANGED <<orders, subscriptions>>
             ELSE \E fault \in Faults :
                    LET id == Len(orders) + 1
                        r == CreateOrderAfterInsert(cx, orderData(cx, id), subscriptions, fault)
                        caught == CreateOrderCatch(r.error)
                        ret == [NoRet EXCEPT !.op = "createOrder", !.orderId = id,
                                             !.guestToken = cx.guestToken]
                    IN  /\ collectives' = cx.colls
                        /\ users' = cx.users
                        /\ subscriptions' = r.subscriptions
                        /\ IF r.error = NoError
                           THEN /\ orders' = Append(orders, r.order)
                                /\ ordersRet' = [ret EXCEPT !.outcome = "returned",
                                                            !.value = "order"]
                           ELSE /\ orders' = Append(orders, CreateOrderSaveError(r.order, r.error))
                                /\ ordersRet' =
                                     [ret EXCEPT !.outcome = caught.outcome,
                                                 !.value = IF caught.outcome = "returned"
                                                           THEN "order" ELSE "",
                                                 !.error = IF caught.outcome = "threw"
                                                           THEN r.error ELSE NoError,
                                                 !.raised = r.error,
                                                 !.orderCreated = r.order,
                                                 !.stripeError = caught.stripeError]
    /\ OtherVarsUnchanged

\* ---- confirmOrder ----
\* loadGuestToken(guestToken): the guest user the token was issued to
GuestTokens == {"", "guest-token", "forged-token"}

loadGuestToken(usrs, guestToken) ==
    IF guestToken = "guest-token" THEN GuestsByEmail(usrs, GuestInfo.email) ELSE {}

\* models.Order.findOne / findByPk: the row, or none
FindOrder(ords, id) == IF id \in DOMAIN ords THEN {ords[id]} ELSE {}

\* a status guard that lets PAID orders through as well
CanBeConfirmedAlsoPaid(order) ==
    order.status \in {status.ERROR, status.PENDING, status.REQUIRE_CLIENT_CONFIRMATION,
                      status.PAID}

\* line 781: the statuses in which an order can be confirmed
CanBeConfirmed(order) ==
    order.status \in {status.ERROR, status.PENDING, status.REQUIRE_CLIENT_CONFIRMATION}

\* the awaited calls inside the try of confirmOrder that may reject
ConfirmFaults ==
    { "none", "executeOrder", "executeOrderStripe", "executeOrderAfterUpdate",
      "processOrder", "processOrderStripe", "Subscription.save", "save" }

\* a catch block that returns every error as a stripeError
ConfirmOrderCatchAlwaysReturns(error) ==
    [outcome |-> "returned", stripeError |-> StripeErrorOf(error)]

\* lines 809-820: whether the catch block of confirmOrder rethrows or returns
ConfirmOrderCatch(error) ==
    IF error.stripeResponse = ""
    THEN [outcome |-> "threw", stripeError |-> NoStripeError]
    ELSE [outcome |-> "returned", stripeError |-> StripeErrorOf(error)]

\* omit(order.data, ['error', 'latestError', 'paymentIntent'])
OmitErrors(data) ==
    [k \in DOMAIN data \ {"error", "latestError", "paymentIntent"} |-> data[k]]

\* lines 787-806: the try block; the rows as they are persisted afterwards, the error
\* raised, and the payment function called
ConfirmOrderTry(order, subs, fault) ==
    IF order.processedAt = ""
    THEN LET r == executeOrder(order, FALSE, fault)
         IN  [order |-> r.order, subscriptions |-> subs, error |-> r.error,
              called |-> "executeOrder"]
    ELSE LET sub == subs[order.SubscriptionId]
             charged == [sub EXCEPT !.nextChargeDate = "next period", !.chargeRetryCount = 0,
                                    !.chargeNumber = IF @ = "null" THEN @ ELSE "next"]
             subsSaved == [subs EXCEPT ![order.SubscriptionId] = charged]
             active == [order EXCEPT !.status = status.ACTIVE, !.data = OmitErrors(@)]
             Result(o, s, e) == [order |-> o, subscriptions |-> s, error |-> e,
                                 called |-> "processOrder"]
         IN  IF fault = "processOrder" THEN Result(order, subs, InternalError)
             ELSE IF fault = "processOrderStripe" THEN Result(order, subs, CardError)
             ELSE IF fault = "Subscription.save" THEN Result(order, subs, InternalError)
             ELSE IF fault = "save" THEN Result(order, subsSaved, InternalError)
             ELSE Result(active, subsSaved, NoError)

\* confirmOrder(order, remoteUser, guestToken), as the new tables and what it hands back
ConfirmOrderResult(usrs, ords, subs, enable, u, id, guestToken, fault) ==
    LET found == FindOrder(ords, id)
        guests == loadGuestToken(usrs, guestToken)
        remoteUser == IF u # 0 THEN u
                      ELSE IF guests # {} THEN CHOOSE g \in guests : TRUE ELSE 0
        before == [NoRet EXCEPT !.op = "confirmOrder", !.caller = u, !.orderId = id,
                                !.before = IF found = {} THEN NoOrder ELSE ords[id],
                                !.subscriptionsBefore = subs]
        Same(ret) == [orders |-> ords, subscriptions |-> subs, ret |-> ret]
        T(name, message) ==
            Same([before EXCEPT !.outcome = "threw", !.error = ErrorOf(name, message)])
    IN  IF u # 0 /\ ~usrs[u].canOrder
        THEN Same([before EXCEPT !.outcome = "returned",
                                 !.value = "FeatureNotAllowedForUser"])
        ELSE IF u = 0 /\ ~enable /\ found = {}
        THEN T("TypeError", "Cannot read property 'collective' of null")
        ELSE IF u = 0 /\ ~enable
        THEN T("Unauthorized", "You need to be logged in to confirm an order")
        ELSE IF u = 0 /\ guestToken = ""
        THEN T("Error", "We could not authenticate your request")
        ELSE IF u = 0 /\ guests = {}
        THEN T("Error", "Your guest token is invalid")
        ELSE IF found = {}
        THEN T("NotFound", "Order not found")
        ELSE IF ~isAdmin(usrs[remoteUser], ords[id].FromCollectiveId)
        THEN T("Unauthorized", "You don't have permission to confirm this order")
        ELSE IF ~CanBeConfirmed(ords[id])
        THEN T("Error", "Order can only be confirmed if its status is ERROR, PENDING or REQUIRE_CLIENT_CONFIRMATION.")
        ELSE LET r == ConfirmOrderTry(ords[id], subs, fault)
                 caught == ConfirmOrderCatch(r.error)
             IN  [ orders |-> [ords EXCEPT ![id] = r.order],
                   subscriptions |-> r.subscriptions,
                   ret |-> IF r.error = NoError
                           THEN [before EXCEPT !.outcome = "returned", !.value = "order",
                                               !.called = r.called]
                           ELSE [before EXCEPT
                                    !.outcome = caught.outcome,
                                    !.value = IF caught.outcome = "returned"
                                              THEN "order" ELSE "",
                                    !.error = IF caught.outcome = "threw"
                                              THEN r.error ELSE NoError,
                                    !.raised = r.error,
                                    !.stripeError = caught.stripeError,
                                    !.called = r.called] ]

\* the callers of the model: nobody, or a user; and the ids asked for: an order, or
\* an id no order has
Callers == {0} \cup DOMAIN users

OrderIds == 1 .. (Len(orders) + 1)

confirmOrder ==
    /\ \E u \in Callers, id \in OrderIds :
         \E guestToken \in (IF u = 0 THEN GuestTokens ELSE {""}), fault \in ConfirmFaults :
           LET r == ConfirmOrderResult(users, orders, subscriptions, guestContributions.enable,
                                       u, id, guestToken, fault)
           IN  /\ orders' = r.orders
               /\ subscriptions' = r.subscriptions
               /\ ordersRet' = r.ret
    /\ UNCHANGED <<collectives, users, guestContributions, createOrderCalls, addFundsCalls>>
    /\ OtherVarsUnchanged

\* ---- markOrderAsPaid, markPendingOrderAsExpired ----
\* lines 924-934 and 967-977: the caller administers the host of the collective
IsAdminOfHost(colls, user, CollectiveId) ==
    IF colls[CollectiveId].isHostAccount
    THEN isAdmin(user, CollectiveId)
    ELSE isAdmin(user, colls[CollectiveId].HostCollectiveId)

\* the checks without the one on the status of the order
MarkOrderChecksNoStatus(colls, usrs, ords, u, id) ==
    IF u = 0 THEN ErrorOf("Unauthorized", "")
    ELSE IF FindOrder(ords, id) = {} THEN ErrorOf("NotFound", "Order not found")
    ELSE IF ~IsAdminOfHost(colls, usrs[u], ords[id].CollectiveId)
    THEN ErrorOf("Unauthorized",
                 "You must be logged in as an admin of the host of the collective")
    ELSE NoError

\* the checks both handlers make before they act: the error thrown, or none
MarkOrderChecks(colls, usrs, ords, u, id) ==
    IF u = 0 THEN ErrorOf("Unauthorized", "")
    ELSE IF FindOrder(ords, id) = {} THEN ErrorOf("NotFound", "Order not found")
    ELSE IF ords[id].status # "PENDING"
    THEN ErrorOf("ValidationFailed", "The order's status must be PENDING")
    ELSE IF ~IsAdminOfHost(colls, usrs[u], ords[id].CollectiveId)
    THEN ErrorOf("Unauthorized",
                 "You must be logged in as an admin of the host of the collective")
    ELSE NoError

\* what either handler hands back when its checks have not passed
MarkOrderRefused(op, ords, u, id, error) ==
    [Threw(op, error) EXCEPT !.caller = u, !.orderId = id,
                             !.before = IF id \in DOMAIN ords THEN ords[id] ELSE NoOrder]

MarkFaults == {"none", "executeOrder", "executeOrderStripe", "executeOrderAfterUpdate"}

\* markOrderAsPaid(remoteUser, id)
markOrderAsPaid ==
    /\ \E u \in Callers, id \in OrderIds :
         LET refused == MarkOrderChecks(collectives, users, orders, u, id)
         IN  IF refused # NoError
             THEN /\ ordersRet' = MarkOrderRefused("markOrderAsPaid", orders, u, id, refused)
                  /\ UNCHANGED orders
             ELSE \E fault \in MarkFaults :
                    LET r == executeOrder(orders[id], FALSE, fault)
                        ret == [NoRet EXCEPT !.op = "markOrderAsPaid", !.caller = u,
                                             !.orderId = id,
                                             !.before = orders[id],
                                             !.called = "executeOrder"]
                    IN  /\ orders' = [orders EXCEPT ![id] = r.order]
                        /\ ordersRet' = IF r.error = NoError
                                        THEN [ret EXCEPT !.outcome = "returned",
                                                         !.value = "order"]
                                        ELSE [ret EXCEPT !.outcome = "threw",
                                                         !.error = r.error]
    /\ UNCHANGED <<collectives, users, subscriptions, guestContributions, createOrderCalls, addFundsCalls>>
    /\ OtherVarsUnchanged

\* markPendingOrderAsExpired(remoteUser, id)
markPendingOrderAsExpired ==
    /\ \E u \in Callers, id \in OrderIds :
         LET refused == MarkOrderChecks(collectives, users, orders, u, id)
         IN  IF refused # NoError
             THEN /\ ordersRet' = MarkOrderRefused("markPendingOrderAsExpired", orders, u,
                                                   id, refused)
                  /\ UNCHANGED orders
             ELSE /\ orders' = [orders EXCEPT ![id].status = "EXPIRED"]
                  /\ ordersRet' = [NoRet EXCEPT !.op = "markPendingOrderAsExpired",
                                                !.caller = u, !.orderId = id,
                                                !.before = orders[id],
                                                !.outcome = "returned", !.value = "order"]
    /\ UNCHANGED <<collectives, users, subscriptions, guestContributions, createOrderCalls, addFundsCalls>>
    /\ OtherVarsUnchanged

\* The recurring charge of an active subscription fails outside these handlers: the
\* order is left in ERROR with data.latestError, for confirmOrder to process again
\* ("if it's a recurring subscription and not the initial order -> processOrder").
RecurringChargeFails ==
    /\ \E id \in DOMAIN orders :
         /\ orders[id].status = status.ACTIVE
         /\ orders[id].processedAt # ""
         /\ orders[id].SubscriptionId # 0
         /\ orders' = [orders EXCEPT
                          ![id].status = status.ERROR,
                          ![id].data = [latestError |-> "Your card was declined"] @@ @]
         /\ subscriptions' = [subscriptions EXCEPT
                                 ![orders[id].SubscriptionId].chargeRetryCount = 1]
    /\ ordersRet' = NoRet
    /\ UNCHANGED <<collectives, users, guestContributions, createOrderCalls, addFundsCalls>>
    /\ OtherVarsUnchanged

OrdersNext ==
    \/ createOrder
    \/ confirmOrder
    \/ markOrderAsPaid
    \/ markPendingOrderAsExpired
    \/ RecurringChargeFails

SpecOrders == OrdersInit /\ [][OrdersNext]_vars

(***************************************************************************)
(* addFundsToCollective, over the same tables.                             *)
(***************************************************************************)
\* the arguments of addFundsToCollective, and whether the host's plan still allows
\* added funds (handleHostPlanAddedFundsLimit)
AddFundsRequests ==
    [ remoteUser : {0, 1, 2, 3},
      collective : [id : {1, 2, 4, 99}],
      totalAmount : {-1000, 1000},
      fromCollective : [id : {0, 1, 2, 99}, name : {"Funder"}],
      user : [email : {"", "new@x.org"}],
      limitOk : BOOLEAN ]

\* the awaited calls after models.Order.create that may reject
AddFundsFaults ==
    {"none", "setPaymentMethod", "creditHost", "executeOrder"}

\* lines 985-1005 without the check on the requester's role
AddFundsChecksAnyRequester(colls, usrs, req) ==
    IF req.remoteUser = 0
    THEN ErrorOf("Error", "You need to be logged in to add fund to collective")
    ELSE IF req.totalAmount < 0
    THEN ErrorOf("Error", "Total amount cannot be a negative value")
    ELSE IF LoadCollective(colls, req.collective.id) = {}
    THEN ErrorOf("Error", "No collective found")
    ELSE IF colls[req.collective.id].HostCollectiveId = 0
    THEN ErrorOf("TypeError", "Cannot read property 'id' of null")
    ELSE IF ~req.limitOk
    THEN ErrorOf("Error", "The limit of the host's plan for added funds is reached")
    ELSE NoError

\* lines 985-1005: the checks before anything is created; the error thrown, or none
AddFundsChecks(colls, usrs, req) ==
    IF req.remoteUser = 0
    THEN ErrorOf("Error", "You need to be logged in to add fund to collective")
    ELSE IF req.totalAmount < 0
    THEN ErrorOf("Error", "Total amount cannot be a negative value")
    ELSE IF LoadCollective(colls, req.collective.id) = {}
    THEN ErrorOf("Error", "No collective found")
    ELSE IF colls[req.collective.id].HostCollectiveId = 0
    THEN ErrorOf("TypeError", "Cannot read property 'id' of null")
    ELSE IF /\ ~isAdmin(usrs[req.remoteUser], colls[req.collective.id].HostCollectiveId)
            /\ ~usrs[req.remoteUser].isRoot
    THEN ErrorOf("Error", "Only an site admin or collective host admin can add fund")
    ELSE IF ~req.limitOk
    THEN ErrorOf("Error", "The limit of the host's plan for added funds is reached")
    ELSE NoError

\* lines 1010-1023: the user the funds come from, created inline when an email is
\* given that no user has; the tables afterwards and the user's id
AddFundsFindUser(colls, usrs, req) ==
    LET found == GuestsByEmail(usrs, req.user.email)
        cid == Len(colls) + 1
        uid == Len(usrs) + 1
    IN  IF req.user.email = ""
        THEN [colls |-> colls, users |-> usrs, user |-> req.remoteUser]
        ELSE IF found # {}
        THEN [colls |-> colls, users |-> usrs, user |-> CHOOSE i \in found : TRUE]
        ELSE [ colls |-> Append(colls, CollectiveRow(cid, "USER", FALSE, FALSE, 0, FALSE, "", "")),
               users |-> Append(usrs, UserRow(uid, cid, {cid}, FALSE, TRUE, req.user.email)),
               user |-> uid ]

\* lines 1025-1039: the collective the funds come from, an organization created inline
\* when no id is given; the tables afterwards, its id, and the error thrown
AddFundsFindFromCollective(t, usrs0, req) ==
    LET id == req.fromCollective.id
        host == t.colls[req.collective.id].HostCollectiveId
        remoteUser == usrs0[req.remoteUser]
        Found(e) == [colls |-> t.colls, users |-> t.users, fromCollective |-> id, error |-> e]
        org == createOrganization([ colls |-> t.colls, users |-> t.users,
                                    remoteUser |-> t.user, fromCollective |-> 0 ])
    IN  IF id = 0
        THEN [ colls |-> org.colls, users |-> org.users,
               fromCollective |-> org.fromCollective, error |-> NoError ]
        ELSE IF LoadCollective(t.colls, id) = {}
        THEN Found(ErrorOf("Error", "From collective id not found"))
        ELSE IF /\ t.colls[id].type \in {"COLLECTIVE", "EVENT"}
                /\ ~(remoteUser.isRoot \/ isAdmin(remoteUser, id))
                /\ t.colls[id].HostCollectiveId # host
                /\ ~isAdmin(remoteUser, t.colls[id].HostCollectiveId)
        THEN Found(ErrorOf("Error", "You don't have the permission to add funds from collectives you don't own or host."))
        ELSE Found(NoError)

\* lines 1041-1050: orderData; the requests of the model set no fee
AddFundsOrderData(colls, req, id, fromCollective) ==
    [NoOrder EXCEPT !.id = id, !.status = status.NEW,
                    !.CreatedByUserId = req.remoteUser,
                    !.FromCollectiveId = fromCollective,
                    !.CollectiveId = req.collective.id,
                    !.totalAmount = req.totalAmount,
                    !.currency = colls[req.collective.id].currency]

\* what addFundsToCollective hands back: the request, the value returned or the error
\* thrown, the row it inserted, whether the host's payment method was linked to the
\* order, and the function called to create the transactions
AddFundsRet(req) ==
    [ op |-> "addFundsToCollective", request |-> req, outcome |-> "threw",
      error |-> NoError, orderCreated |-> NoOrder, linked |-> FALSE, called |-> "" ]

\* addFundsToCollective(order, remoteUser), as the new tables and what it hands back
AddFundsToCollectiveResult(colls, usrs, ords, req, fault) ==
    LET refused == AddFundsChecks(colls, usrs, req)
        t == AddFundsFindUser(colls, usrs, req)
        f == AddFundsFindFromCollective(t, usrs, req)
        id == Len(ords) + 1
        orderCreated == AddFundsOrderData(colls, req, id, f.fromCollective)
        toItself == f.colls[f.fromCollective].isHostAccount
                    /\ f.fromCollective = req.collective.id
        executed == executeOrder(orderCreated, FALSE, fault)
        ret == [AddFundsRet(req) EXCEPT !.orderCreated = orderCreated]
        Tables(c, u, o, r) == [collectives |-> c, users |-> u, orders |-> o, ret |-> r]
    IN  IF refused # NoError
        THEN Tables(colls, usrs, ords, [AddFundsRet(req) EXCEPT !.error = refused])
        ELSE IF f.error # NoError
        THEN Tables(f.colls, f.users, ords, [AddFundsRet(req) EXCEPT !.error = f.error])
        ELSE IF fault = "setPaymentMethod"
        THEN Tables(f.colls, f.users, Append(ords, orderCreated),
                    [ret EXCEPT !.error = InternalError])
        ELSE IF toItself
        THEN Tables(f.colls, f.users, Append(ords, orderCreated),
                    IF fault = "creditHost"
                    THEN [ret EXCEPT !.error = InternalError, !.linked = TRUE,
                                     !.called = "creditHost"]
                    ELSE [ret EXCEPT !.outcome = "returned", !.linked = TRUE,
                                     !.called = "creditHost"])
        ELSE Tables(f.colls, f.users, Append(ords, executed.order),
                    IF executed.error # NoError
                    THEN [ret EXCEPT !.error = executed.error, !.linked = TRUE,
                                     !.called = "executeOrder"]
                    ELSE [ret EXCEPT !.outcome = "returned", !.linked = TRUE,
                                     !.called = "executeOrder"])

\* addFundsToCollective(order, remoteUser)
addFundsToCollective ==
    /\ addFundsCalls < MaxAddFundsCalls
    /\ addFundsCalls' = addFundsCalls + 1
    /\ \E req \in AddFundsRequests, fault \in AddFundsFaults :
         LET r == AddFundsToCollectiveResult(collectives, users, orders, req, fault)
         IN  /\ collectives' = r.collectives
             /\ users' = r.users
             /\ orders' = r.orders
             /\ ordersRet' = r.ret
    /\ UNCHANGED <<subscriptions, guestContributions, createOrderCalls>>
    /\ OtherVarsUnchanged

AddFundsNext == addFundsToCollective

\* the tables before the first call; addFundsToCollective reads neither
\* config.guestContributions nor the event
AddFundsInit ==
    /\ OrdersInit
    /\ collectives = InitialCollectives(TRUE)
    /\ ~guestContributions.enable

SpecAddFunds == AddFundsInit /\ [][AddFundsNext]_vars

(***************************************************************************)
(* The claims.                                                             *)
(***************************************************************************)
\* C7: isFeatureAllowedForCollectiveType returns true exactly when the feature has no
\* allowed-types list or the list contains the type, and it is not the case that the
\* type is ORGANIZATION, the feature is host-orgs-only and isHost is falsy, and it is
\* not the case that the type is USER, the feature is host-users-only and isHost is
\* falsy.
C7_AllowedExactly ==
    (finput.fn = "isFeatureAllowedForCollectiveType" /\ fresult # "pending") =>
        LET type == finput.collective.type
            feature == finput.feature
            falsy == finput.isHost \in {"false", "undefined"}
            listed ==
                \/ feature \notin DOMAIN FeatureAllowedForTypes
                \/ \E i \in DOMAIN FeatureAllowedForTypes[feature] :
                       FeatureAllowedForTypes[feature][i] = type
        IN  (fresult = "true") <=>
                /\ listed
                /\ ~(type = "ORGANIZATION" /\ feature \in FEATURES_ONLY_FOR_HOST_ORGS /\ falsy)
                /\ ~(type = "USER" /\ feature \in FEATURES_ONLY_FOR_HOST_USERS /\ falsy)

\* a USER that is not a host was refused a host-users-only feature whose list has USER
C7_Witness ==
    /\ finput.fn = "isFeatureAllowedForCollectiveType"
    /\ finput.collective.type = "USER"
    /\ finput.feature = "HOST_DASHBOARD"
    /\ finput.isHost = "undefined"
    /\ fresult = "false"

\* C8: hasFeature returns false when the collective is null/undefined or when
\* isFeatureAllowedForCollectiveType(collective.type, feature, collective.isHostAccount)
\* is false, whatever the opt-in and opt-out settings of the collective are.
C8_OnlyIfAllowedForType ==
    (finput.fn = "hasFeature" /\ fresult # "pending") =>
        LET c == finput.collective
        IN  ( \/ c.js \in {"null", "undefined"}
              \/ ~isFeatureAllowedForCollectiveType(c.type, finput.feature, c.isHostAccount) )
                => fresult = "false"

\* an active USER that opted in for CONVERSATIONS, which users cannot have, was refused
C8_Witness ==
    /\ finput.fn = "hasFeature"
    /\ finput.collective.js = "object"
    /\ finput.collective.type = "USER"
    /\ finput.collective.isActive
    /\ finput.feature = "CONVERSATIONS"
    /\ Get(finput.collective, "settings.features.conversations") = "true"
    /\ fresult = "false"

\* C6 as stated: a caller that is not a site admin gets an error and nothing is
\* created; for a site admin exactly one prepaid 'opencollective' payment method is
\* created for args.CollectiveId with initialBalance args.totalAmount and the host
\* collective's currency.
C6_AsStated ==
    fundsRet.op = "addFundsToOrg" =>
        LET root == fundsRet.remoteUser.js = "object" /\ fundsRet.remoteUser.isRoot
        IN  /\ ~root =>
                /\ fundsRet.threw # ""
                /\ Len(paymentMethods) = fundsRet.paymentMethodsBefore
                /\ Len(activities) = fundsRet.activitiesBefore
            /\ root =>
                /\ Len(paymentMethods) = fundsRet.paymentMethodsBefore + 1
                /\ LET pm == paymentMethods[Len(paymentMethods)]
                   IN  /\ pm.type = "prepaid" /\ pm.service = "opencollective"
                       /\ pm.CollectiveId = fundsRet.args.CollectiveId
                       /\ pm.initialBalance = fundsRet.args.totalAmount
                       /\ \E h \in FundsFindByPk(fundsRet.args.HostCollectiveId) :
                              pm.currency = h.currency

\* C6 (amended): a caller that is not a site admin gets an error and nothing is
\* created; for a site admin, when both args.CollectiveId and args.HostCollectiveId
\* name existing collectives, exactly one prepaid 'opencollective' payment method is
\* created for args.CollectiveId with initialBalance args.totalAmount and the host's
\* currency; when one of them does not exist the call throws and creates nothing.
C6_OnlySiteAdmins ==
    fundsRet.op = "addFundsToOrg" =>
        LET root == fundsRet.remoteUser.js = "object" /\ fundsRet.remoteUser.isRoot
            bothExist == /\ FundsFindByPk(fundsRet.args.CollectiveId) # {}
                         /\ FundsFindByPk(fundsRet.args.HostCollectiveId) # {}
        IN  /\ (~root \/ ~bothExist) =>
                /\ fundsRet.threw # ""
                /\ Len(paymentMethods) = fundsRet.paymentMethodsBefore
                /\ Len(activities) = fundsRet.activitiesBefore
            /\ (root /\ bothExist) =>
                /\ fundsRet.threw = ""
                /\ Len(paymentMethods) = fundsRet.paymentMethodsBefore + 1
                /\ LET pm == paymentMethods[Len(paymentMethods)]
                   IN  /\ pm.type = "prepaid" /\ pm.service = "opencollective"
                       /\ pm.CollectiveId = fundsRet.args.CollectiveId
                       /\ pm.initialBalance = fundsRet.args.totalAmount
                       /\ \E h \in FundsFindByPk(fundsRet.args.HostCollectiveId) :
                              pm.currency = h.currency

\* a site admin created a second prepaid payment method, in the currency of host 1
C6_Witness ==
    /\ fundsRet.op = "addFundsToOrg"
    /\ fundsRet.remoteUser.js = "object" /\ fundsRet.remoteUser.isRoot
    /\ fundsRet.threw = ""
    /\ fundsRet.args.CollectiveId = 2 /\ fundsRet.args.HostCollectiveId = 1
    /\ Len(paymentMethods) = 2
    /\ paymentMethods[2].currency = "USD"

\* C5: refundTransaction calls libPayments.refundTransaction only when the transaction
\* with the given id exists and canRefund(transaction, undefined, req) is true; when
\* the transaction is missing it throws NotFound and when canRefund is false it throws
\* Forbidden, and in both cases no refund is executed and no refund transaction is
\* created.
C5_RefundOnlyIfAllowed ==
    refundRet.op = "refundTransaction" =>
        LET before == refundRet.transactionsBefore
            exists == refundRet.id \in DOMAIN before
            allowed == exists /\ canRefund(before[refundRet.id], refundRet.remoteUser)
            called == refundCalls = refundRet.refundCallsBefore + 1
        IN  /\ called => (exists /\ allowed)
            /\ ~exists =>
                 /\ refundRet.outcome = "NotFound"
                 /\ refundCalls = refundRet.refundCallsBefore
                 /\ transactions = before
            /\ (exists /\ ~allowed) =>
                 /\ refundRet.outcome = "Forbidden"
                 /\ refundCalls = refundRet.refundCallsBefore
                 /\ transactions = before

\* an admin of the receiving collective was refused the refund of an old CREDIT
\* transaction after another refund had been executed
C5_Witness ==
    /\ refundRet.op = "refundTransaction"
    /\ refundRet.outcome = "Forbidden"
    /\ refundRet.remoteUser.adminOf = {20}
    /\ refundRet.id \in DOMAIN refundRet.transactionsBefore
    /\ refundRet.transactionsBefore[refundRet.id].type = "CREDIT"
    /\ refundRet.transactionsBefore[refundRet.id].olderThan30Days
    /\ refundCalls = 1
    /\ Len(transactions) = 3

\* C10: outside the ci/test environments, under any interleaving of concurrent
\* createOrder calls, for each limit key at most `value` calls pass checkOrdersLimit
\* while the key's one-hour cache entry is alive.
C10_AtMostValuePass ==
    env \in {"production", "development"} =>
        \A k \in DOMAIN passes : passes[k] <= LimitValue(k)

\* C9: for a collective whose website's domain is on the blocked-domains list, the
\* report of collectiveSpamCheck has score 1 (10 tenths), lists that domain in domains,
\* and has an empty keywords list when no bad keyword is present in its fields.
C9_DetectsBlockedWebsites ==
    (spamReport.done /\ spamInput.website # "") =>
        LET domain == getDomain(spamInput.website)
            blocked == \E i \in 1..Len(BlockedDomains) : BlockedDomains[i] = domain
            badKeyword ==
                \E i \in 1..Len(SpamKeywords), f \in 1..4 :
                    StrIncludes(toLowerCase(SpamFields(spamInput)[f]), SpamKeywords[i].keyword)
        IN  blocked =>
                /\ spamReport.score = 10
                /\ \E i \in 1..Len(spamReport.domains) : spamReport.domains[i] = domain
                /\ ~badKeyword => spamReport.keywords = <<>>

\* the case of the test: https://supplementslove.com/promotion and nothing else
C9_Witness ==
    /\ spamReport.done
    /\ spamInput = [ name |-> "", website |-> "https://supplementslove.com/promotion",
                     description |-> "", longDescription |-> "" ]
    /\ spamReport.score = 10
    /\ spamReport.keywords = <<>>
    /\ spamReport.domains = <<"supplementslove.com">>

\* C1: whenever createOrder fails after models.Order.create has succeeded and the order
\* has no processedAt, the order is saved with status REQUIRE_CLIENT_CONFIRMATION if the
\* error carries a stripeResponse and with status ERROR otherwise, and its data gains
\* error.message equal to the error's message while every other data key is preserved.
C1_ErrorPathSavesStatus ==
    ( /\ ordersRet.op = "createOrder"
      /\ ordersRet.raised # NoError
      /\ ordersRet.orderCreated.processedAt = "" )
    => LET saved == orders[ordersRet.orderId]
           held == ordersRet.orderCreated
       IN  /\ saved.status = IF ordersRet.raised.stripeResponse # ""
                             THEN "REQUIRE_CLIENT_CONFIRMATION" ELSE "ERROR"
           /\ DOMAIN saved.data = DOMAIN held.data \cup {"error"}
           /\ saved.data["error"] = [message |-> ordersRet.raised.message]
           /\ \A k \in DOMAIN held.data \ {"error"} : saved.data[k] = held.data[k]
           /\ [saved EXCEPT !.status = held.status, !.data = held.data] = held

\* a createOrder call whose payment needed the client's confirmation, on an order that
\* carries a host fee in its data
C1_Witness ==
    /\ ordersRet.op = "createOrder"
    /\ ordersRet.raised.stripeResponse # ""
    /\ ordersRet.orderCreated.processedAt = ""
    /\ "hostFeePercent" \in DOMAIN ordersRet.orderCreated.data
    /\ orders[ordersRet.orderId].status = "REQUIRE_CLIENT_CONFIRMATION"

\* C2: an error raised in createOrder after the order was persisted, or in confirmOrder
\* while executing or processing the payment, is returned (not thrown) as a stripeError
\* {message, account, response} attached to the order if and only if it carries a
\* stripeResponse; every error without a stripeResponse is rethrown to the caller.
C2_StripeErrorReturnedIffStripeResponse ==
    ( /\ ordersRet.op \in {"createOrder", "confirmOrder"}
      /\ ordersRet.raised # NoError )
    => IF ordersRet.raised.stripeResponse # ""
       THEN /\ ordersRet.outcome = "returned"
            /\ ordersRet.value = "order"
            /\ ordersRet.stripeError = [ message |-> ordersRet.raised.message,
                                         account |-> ordersRet.raised.stripeAccount,
                                         response |-> ordersRet.raised.stripeResponse ]
       ELSE /\ ordersRet.outcome = "threw"
            /\ ordersRet.error = ordersRet.raised
            /\ ordersRet.stripeError = NoStripeError

\* confirmOrder processed the charge of a subscription again and the payment provider
\* answered with an error that carries a stripeResponse
C2_Witness ==
    /\ ordersRet.op = "confirmOrder"
    /\ ordersRet.called = "processOrder"
    /\ ordersRet.raised.stripeResponse # ""
    /\ ordersRet.outcome = "returned"

\* confirmOrder was called for an order that exists and whose status is none of ERROR,
\* PENDING, REQUIRE_CLIENT_CONFIRMATION
C3_OtherStatus ==
    /\ ordersRet.op = "confirmOrder"
    /\ ordersRet.before # NoOrder
    /\ ordersRet.before.status \notin {"ERROR", "PENDING", "REQUIRE_CLIENT_CONFIRMATION"}

\* confirmOrder called neither payment function and left the order and the
\* subscriptions as they were
C3_Untouched ==
    /\ ordersRet.called = ""
    /\ orders[ordersRet.orderId] = ordersRet.before
    /\ subscriptions = ordersRet.subscriptionsBefore

\* C3 as stated: for an order in any other status confirmOrder throws, calls neither
\* libPayments.executeOrder nor libPayments.processOrder, and leaves the order and its
\* subscription unchanged.
C3_AsStated == C3_OtherStatus => (ordersRet.outcome = "threw" /\ C3_Untouched)

\* C3: for an order in any other status confirmOrder does not confirm it: it throws,
\* except that for a logged-in user who may not use the ORDER feature it returns
\* FeatureNotAllowedForUser; either way it calls neither libPayments.executeOrder nor
\* libPayments.processOrder and leaves the order and its subscription unchanged.
C3_OtherStatusNeverConfirmed ==
    C3_OtherStatus
    => /\ C3_Untouched
       /\ IF ordersRet.caller # 0 /\ ~users[ordersRet.caller].canOrder
          THEN ordersRet.outcome = "returned" /\ ordersRet.value = "FeatureNotAllowedForUser"
          ELSE ordersRet.outcome = "threw"

\* the contributor asked to confirm their own order, which is already PAID
C3_Witness ==
    /\ C3_OtherStatus
    /\ ordersRet.before.status = "PAID"
    /\ ordersRet.error.message
         = "Order can only be confirmed if its status is ERROR, PENDING or REQUIRE_CLIENT_CONFIRMATION."

\* markOrderAsPaid or markPendingOrderAsExpired was called for an order that exists
C4_Marked ==
    /\ ordersRet.op \in {"markOrderAsPaid", "markPendingOrderAsExpired"}
    /\ ordersRet.before # NoOrder

\* either handler succeeds only on a PENDING order, and after markPendingOrderAsExpired
\* has succeeded the order is EXPIRED
C4_SucceedsOnlyOnPending ==
    (C4_Marked /\ ordersRet.outcome = "returned")
    => /\ ordersRet.before.status = "PENDING"
       /\ ordersRet.op = "markPendingOrderAsExpired"
            => orders[ordersRet.orderId].status = "EXPIRED"

\* an EXPIRED order stays EXPIRED, and no call of either handler succeeds on it
C4_ExpiredForGood ==
    \A id \in DOMAIN orders :
        orders[id].status = "EXPIRED"
        => /\ orders'[id] = orders[id]
           /\ ~( /\ ordersRet'.op \in {"markOrderAsPaid", "markPendingOrderAsExpired"}
                 /\ ordersRet'.orderId = id
                 /\ ordersRet'.outcome = "returned"
                 /\ ordersRet'.before.status = "EXPIRED" )

\* C4 as stated: markOrderAsPaid and markPendingOrderAsExpired each succeed only on an
\* order whose status is PENDING (otherwise ValidationFailed, order unchanged); after
\* markPendingOrderAsExpired succeeds the order's status is EXPIRED, and in every later
\* sequence of sequential calls neither succeeds on that order again.
C4_AsStated ==
    /\ [](C4_SucceedsOnlyOnPending)
    /\ []((C4_Marked /\ ordersRet.before.status # "PENDING")
            => /\ ordersRet.outcome = "threw"
               /\ ordersRet.error.name = "ValidationFailed"
               /\ orders[ordersRet.orderId] = ordersRet.before)
    /\ [][C4_ExpiredForGood]_vars

\* C4: markOrderAsPaid and markPendingOrderAsExpired each succeed only on an order whose
\* status is PENDING; on an order in another status they throw and leave the order
\* unchanged, ValidationFailed when the caller is logged in and Unauthorized when there
\* is no caller; after markPendingOrderAsExpired succeeds the order's status is EXPIRED,
\* and in every later sequence of sequential calls neither succeeds on that order again.
C4_PendingOnlyAndExpiredForGood ==
    /\ [](C4_SucceedsOnlyOnPending)
    /\ []((C4_Marked /\ ordersRet.before.status # "PENDING")
            => /\ ordersRet.outcome = "threw"
               /\ ordersRet.error.name = IF ordersRet.caller # 0 THEN "ValidationFailed"
                                         ELSE "Unauthorized"
               /\ orders[ordersRet.orderId] = ordersRet.before)
    /\ [][C4_ExpiredForGood]_vars

\* a host admin asked to mark as paid an order that was marked as expired before
C4_Witness ==
    /\ ordersRet.op = "markOrderAsPaid"
    /\ ordersRet.before.status = "EXPIRED"
    /\ ordersRet.caller # 0
    /\ ordersRet.error.name = "ValidationFailed"
    /\ orders[ordersRet.orderId].status = "EXPIRED"

\* C11: in a sequential run, checkOrdersLimit (outside ci/test, where it builds its
\* limits) evaluates them in order and throws at the first limit whose stored count is
\* >= its value; every limit evaluated up to and including that one has its counter
\* incremented by 1 with its expiry reset to one hour (also on the rejected call), and
\* the counters of the limits after it, like every other cache entry, are unchanged.
C11_CountsUpToFirstReached ==
    (limitRet.op = "checkOrdersLimit" /\ env \notin {"ci", "test"})
    => LET limits == Limits(limitRet.order)
           before == limitRet.before
           stored(i) == IF limits[i].key \in DOMAIN before
                        THEN before[limits[i].key].count ELSE 0
           reached == {i \in 1..Len(limits) : stored(i) >= limits[i].value}
           first == IF reached = {} THEN 0
                    ELSE CHOOSE i \in reached : \A j \in reached : i <= j
           evaluated == IF first = 0 THEN 1..Len(limits) ELSE 1..first
           evaluatedKeys == {limits[i].key : i \in evaluated}
       IN  /\ limitRet.threwAt = first
           /\ limitRet.outcome = IF first = 0 THEN "returned" ELSE "threw"
           /\ \A i \in evaluated :
                /\ limits[i].key \in DOMAIN cache
                /\ cache[limits[i].key] = [count |-> stored(i) + 1, ttl |-> oneHourInSeconds]
           /\ DOMAIN cache = DOMAIN before \cup evaluatedKeys
           /\ \A k \in DOMAIN before \ evaluatedKeys : cache[k] = before[k]

\* a call rejected at its second limit: the first limit was counted, and the limit it
\* was rejected at was counted too
C11_Witness ==
    /\ limitRet.op = "checkOrdersLimit"
    /\ limitRet.outcome = "threw"
    /\ limitRet.threwAt = 2
    /\ Len(Limits(limitRet.order)) = 2
    /\ Limits(limitRet.order)[2].key \in DOMAIN limitRet.before
    /\ cache[Limits(limitRet.order)[2].key].count
         = limitRet.before[Limits(limitRet.order)[2].key].count + 1

\* C12: a createOrder call that throws before models.Order.create is reached leaves no
\* new entity persisted: no collective (found-or-created by website, or pledged
\* collective created from a GitHub handle), no inline organization and no guest
\* profile created by that call remains after the failure.
C12_EarlyThrowPersistsNothing ==
    [][ ( /\ createOrderCalls' = createOrderCalls + 1
          /\ ordersRet'.op = "createOrder"
          /\ ordersRet'.outcome = "threw"
          /\ orders' = orders )
        => (collectives' = collectives /\ users' = users) ]_vars

\* the request of the call just made passes what C13 names: a logged-in requester
\* who is root or an admin of the receiving collective's host, a totalAmount that is not
\* negative, a receiving collective that exists, and the plan limit check
C13_Allowed(req, colls, usrs) ==
    /\ req.remoteUser # 0
    /\ req.totalAmount >= 0
    /\ req.collective.id \in DOMAIN colls
    /\ \/ usrs[req.remoteUser].isRoot
       \/ colls[req.collective.id].HostCollectiveId \in usrs[req.remoteUser].adminOf
    /\ req.limitOk

\* C13: addFundsToCollective creates an order only when there is a logged-in requester
\* who is root or an admin of the receiving collective's host, totalAmount is not
\* negative, the receiving collective exists and the host's added-funds plan limit check
\* passes; in every other case it throws before models.Order.create, so no order,
\* payment method link or transaction is created. The order it creates has status NEW
\* and the collective's currency.
C13_AddFundsOnlyWhenAllowed ==
    [][ ordersRet'.op = "addFundsToCollective"
        => LET ret == ordersRet'
               req == ret.request
           IN  /\ orders' # orders
                    => /\ C13_Allowed(req, collectives, users)
                       /\ orders' = Append(orders, orders'[Len(orders')])
                       /\ ret.orderCreated.status = "NEW"
                       /\ ret.orderCreated.currency = collectives[req.collective.id].currency
                       /\ orders'[Len(orders')].currency
                            = collectives[req.collective.id].currency
                       /\ orders'[Len(orders')].CollectiveId = req.collective.id
               /\ ~C13_Allowed(req, collectives, users)
                    => /\ ret.outcome = "threw"
                       /\ orders' = orders
                       /\ ~ret.linked
                       /\ ret.called = "" ]_vars

\* a host admin added funds to the collective, and a contributor who is neither root
\* nor host admin was refused
C13_Witness ==
    /\ ordersRet.op = "addFundsToCollective"
    /\ ordersRet.outcome = "returned"
    /\ ordersRet.called = "executeOrder"
    /\ ordersRet.request.remoteUser = 2
    /\ Len(orders) = 1
    /\ orders[1].CollectiveId = 2

====
